---- MODULE Spec2Model ----
(***************************************************************************)
(* The chat-completion edge function (supabase/edge-functions/             *)
(* chat-completion.ts): a stateless proxy that validates a JSON request,   *)
(* resolves a provider credential, reshapes the message list, issues one   *)
(* HTTP POST to the provider and reshapes the reply.                       *)
(*                                                                         *)
(* JSON objects are records that hold exactly the fields the object has:   *)
(* a missing field is a name outside DOMAIN.  A thrown Error is a record   *)
(* [threw |-> TRUE, message |-> parts]; a template literal `a${b}` is the  *)
(* tuple of its parts <<a, b>>, so that "the message contains b" can be    *)
(* stated.                                                                 *)
(*                                                                         *)
(* The file-upload and code-execution edge functions (file-upload.ts,      *)
(* code-execution.ts) are modelled in the same way, in front of the        *)
(* Supabase auth service, storage bucket and tables, under SpecFn.         *)
(***************************************************************************)
EXTENDS Integers, Sequences, FiniteSets, TLC

VARIABLES
    env,        \* Deno.env: the process-wide provider credentials
    pc,         \* per invocation: "idle", "fetching" (awaiting fetch), "done"
    request,    \* per invocation: the HTTP request being served
    envReads,   \* per invocation: the environment variables Deno.env.get was asked for
    calls,      \* per invocation: the upstream HTTP calls issued, in order
    reply,      \* per invocation: what the upstream did with the call
    response,   \* per invocation: the HTTP response returned to the caller
    fnEnv,      \* Deno.env of the file-upload and code-execution functions
    fnPc,       \* where their handler stands: "idle", the await it is at, "done"
    fnRequest,  \* the request it serves
    fnLocals,   \* the constants the handler has bound so far
    fnCalls,    \* the HTTP calls it issued to the Supabase services, in order
    fnResponse, \* the HTTP response returned to the caller
    storage,    \* the objects of the chat-files bucket
    file_uploads,       \* the rows of table file_uploads
    code_executions,    \* the rows of table code_executions
    executed,   \* the execution ids whose code was run
    clock,      \* Date.now(): the number of requests accepted so far
    state,      \* ChatContext: the state of useReducer(chatReducer, initialState)
    sends,      \* ChatContext: the sendMessage calls made, each with its position
    uuid        \* the number of identifiers uuidv4 has handed out

ccVars == <<env, pc, request, envReads, calls, reply, response>>

fnVars == <<fnEnv, fnPc, fnRequest, fnLocals, fnCalls, fnResponse,
            storage, file_uploads, code_executions, executed, clock>>

chatVars == <<state, sends, uuid>>

vars == <<ccVars, fnVars, chatVars>>

(* Bounds of the model. *)
MaxMsgs == 2
NumInv == 2
MaxServed == 1
MaxConvs == 2
MaxChatMsgs == 2
MaxSends == 2

Invocations == 1..NumInv

(* ------------------------------ values -------------------------------- *)

EmptyObject == [x \in {} |-> x]

\* The value null.
Null == "<null>"

\* A field that may be missing: <<>> is "missing", <<v>> is "present with v".
Maybe(S) == {<<>>} \cup {<<v>> : v \in S}

Opt(f, o) == IF Len(o) = 0 THEN EmptyObject ELSE f :> o[1]

Has(o, f) == f \in DOMAIN o

\* The chat messages of the requests: each of the three roles, and two
\* contents.
ChatMessage ==
    {[role |-> "user", content |-> "hi"], [role |-> "user", content |-> "yo"],
     [role |-> "assistant", content |-> "hi"], [role |-> "system", content |-> "yo"]}

RECURSIVE SeqsUpTo(_, _)
SeqsUpTo(S, n) ==
    IF n = 0 THEN {<<>>}
    ELSE LET shorter == SeqsUpTo(S, n - 1)
         IN  shorter \cup {Append(s, x) : s \in {t \in shorter : Len(t) = n - 1}, x \in S}

\* The messages field when present: an array of chat messages, or some
\* truthy value that is not an array (a single message object).
MessagesValues ==
    {[isArray |-> TRUE, items |-> s] : s \in SeqsUpTo(ChatMessage, MaxMsgs)}
        \cup {[isArray |-> FALSE, items |-> <<>>]}

Providers == {"openai", "claude", "mistral"}

ProviderValues == Providers \cup {"cohere", ""}

ModelValues == {"gpt-4", ""}

UserApiKeyValues == {"sk-user", ""}

ParsedBodies ==
    { Opt("messages", m) @@ Opt("model", mo) @@ Opt("provider", p)
        @@ Opt("stream", s) @@ Opt("userApiKey", k) :
        m \in Maybe(MessagesValues), mo \in Maybe(ModelValues),
        p \in Maybe(ProviderValues), s \in Maybe(BOOLEAN),
        k \in Maybe(UserApiKeyValues) }

\* req.json() either yields the parsed object or rejects with a SyntaxError.
RequestBodies ==
    {[parseable |-> TRUE, json |-> b] : b \in ParsedBodies}
        \cup {[parseable |-> FALSE, json |-> EmptyObject]}

Requests == [method : {"POST", "OPTIONS"}, body : RequestBodies]

EnvVars == {"OPENAI_API_KEY", "ANTHROPIC_API_KEY", "MISTRAL_API_KEY"}

EnvSecret(var) ==
    CASE var = "OPENAI_API_KEY" -> "sk-env-openai"
      [] var = "ANTHROPIC_API_KEY" -> "sk-env-anthropic"
      [] var = "MISTRAL_API_KEY" -> "sk-env-mistral"

\* The environments the function can be deployed in: any subset of the
\* three variables is set.
Environments == {[v \in S |-> EnvSecret(v)] : S \in SUBSET EnvVars}

(* -------------------------- JavaScript values -------------------------- *)

\* !o.f for a string-valued field: undefined (missing) and '' are falsy.
Falsy(o, f) == ~Has(o, f) \/ o[f] = ""

\* The value undefined, where a string is expected.
Undefined == "<undefined>"

Get(o, f) == IF Has(o, f) THEN o[f] ELSE Undefined

\* JSON.stringify of an object whose fields are strings: a field whose
\* value is undefined is left out.
JSONstringify(o) == [f \in {g \in DOMAIN o : o[g] # Undefined} |-> o[f]]

Threw(parts) == [threw |-> TRUE, message |-> parts]

\* The SyntaxError of a body that is not JSON, and the TypeError of
\* indexing undefined (V8's wording).
JsonSyntaxError == <<"Unexpected token '<' is not valid JSON">>

IndexUndefinedError == <<"Cannot read properties of undefined (reading '0')">>

(* ------------------------- the upstream replies ------------------------ *)

UsageValues == {"usage:3"}

EchoedModels == {"gpt-4-0613"}

\* usage and model of an upstream body: both there, or both missing.
Envelopes ==
    {"id" :> "resp-1"}
        \cup {("id" :> "resp-1") @@ ("usage" :> u) @@ ("model" :> m) :
                u \in UsageValues, m \in EchoedModels}

Texts == {"hi", ""}

\* choices of an OpenAI or Mistral body, with the content missing at each level.
ChoicesValues ==
    {<<>>, <<[index |-> 0]>>, <<[index |-> 0, message |-> [role |-> "assistant"]]>>}
        \cup {<<[index |-> 0, message |-> [role |-> "assistant", content |-> t]]>> :
                t \in Texts}

\* content of a Claude body, with the text missing at each level.
ContentValues ==
    {<<>>, <<[type |-> "text"]>>} \cup {<<[type |-> "text", text |-> t]>> : t \in Texts}

SuccessBodies ==
    {e @@ Opt("choices", c) : e \in Envelopes, c \in Maybe(ChoicesValues)}
        \cup {e @@ ("content" :> c) : e \in Envelopes, c \in ContentValues}

ErrorBodies ==
    {"id" :> "resp-1",
     "error" :> [type |-> "auth"],
     "error" :> [type |-> "auth", message |-> "invalid key"],
     "error" :> [type |-> "auth", message |-> ""]}

HttpResponse(status, parseable, json) ==
    [failed |-> FALSE, status |-> status, parseable |-> parseable, json |-> json]

\* What fetch resolves with: a status and a body that response.json() parses
\* or rejects.
UpstreamResponses ==
    {HttpResponse(200, TRUE, b) :
        b \in SuccessBodies \cup {"error" :> [type |-> "auth", message |-> "invalid key"]}}
        \cup {HttpResponse(401, TRUE, b) :
                b \in ErrorBodies
                    \cup {("id" :> "resp-1")
                            @@ ("choices" :> <<[index |-> 0,
                                    message |-> [role |-> "assistant", content |-> "hi"]]>>)}}
        \cup {HttpResponse(st, FALSE, EmptyObject) : st \in {200, 401}}

\* fetch rejecting: the network-level failure.
NetworkFailureReply ==
    [failed |-> TRUE, status |-> 0, parseable |-> FALSE, json |-> EmptyObject]

\* response.ok
ok(r) == r.status \in 200..299

(* ---------------------- formatMessagesForProvider ---------------------- *)

\* formatMessagesForProvider with the claude mapping pasted into the
\* mistral case.
formatMessagesForProvider_mistralAsClaude(messages, provider) ==
    CASE provider = "openai" ->
            [k \in 1..Len(messages) |->
                [role |-> messages[k].role, content |-> messages[k].content]]
      [] provider \in {"claude", "mistral"} ->
            [k \in 1..Len(messages) |->
                [role |-> IF messages[k].role = "user" THEN "human" ELSE "assistant",
                 content |-> messages[k].content]]
      [] OTHER -> messages

formatMessagesForProvider(messages, provider) ==
    CASE provider = "openai" ->
            [k \in 1..Len(messages) |->
                [role |-> messages[k].role, content |-> messages[k].content]]
      [] provider = "claude" ->
            [k \in 1..Len(messages) |->
                [role |-> IF messages[k].role = "user" THEN "human" ELSE "assistant",
                 content |-> messages[k].content]]
      [] provider = "mistral" ->
            [k \in 1..Len(messages) |->
                [role |-> messages[k].role, content |-> messages[k].content]]
      [] OTHER -> messages

(* ------------------------- the three upstream calls -------------------- *)

\* The request each call hands to fetch.
callOpenAI_fetch(messages, model, apiKey, stream) ==
    [url |-> "https://api.openai.com/v1/chat/completions",
     method |-> "POST",
     headers |-> ("Authorization" :> ("Bearer " \o apiKey))
                    @@ ("Content-Type" :> "application/json"),
     body |-> [model |-> model, messages |-> messages, stream |-> stream]]

\* callClaude without the max_tokens field.
callClaude_fetch_noMaxTokens(messages, model, apiKey, stream) ==
    [url |-> "https://api.anthropic.com/v1/messages",
     method |-> "POST",
     headers |-> ("x-api-key" :> apiKey)
                    @@ ("Content-Type" :> "application/json")
                    @@ ("anthropic-version" :> "2023-06-01"),
     body |-> [model |-> model, messages |-> messages, stream |-> stream]]

callClaude_fetch(messages, model, apiKey, stream) ==
    [url |-> "https://api.anthropic.com/v1/messages",
     method |-> "POST",
     headers |-> ("x-api-key" :> apiKey)
                    @@ ("Content-Type" :> "application/json")
                    @@ ("anthropic-version" :> "2023-06-01"),
     body |-> [model |-> model, max_tokens |-> 4000, messages |-> messages,
               stream |-> stream]]

\* callMistral posting to the OpenAI endpoint it was copied from.
callMistral_fetch_openaiUrl(messages, model, apiKey, stream) ==
    [url |-> "https://api.openai.com/v1/chat/completions",
     method |-> "POST",
     headers |-> ("Authorization" :> ("Bearer " \o apiKey))
                    @@ ("Content-Type" :> "application/json"),
     body |-> [model |-> model, messages |-> messages, stream |-> stream]]

callMistral_fetch(messages, model, apiKey, stream) ==
    [url |-> "https://api.mistral.ai/v1/chat/completions",
     method |-> "POST",
     headers |-> ("Authorization" :> ("Bearer " \o apiKey))
                    @@ ("Content-Type" :> "application/json"),
     body |-> [model |-> model, messages |-> messages, stream |-> stream]]

\* errorData.error?.message || 'Unknown error'
upstreamErrorText(errorData) ==
    IF Has(errorData, "error") /\ ~Falsy(errorData.error, "message")
    THEN errorData.error.message
    ELSE "Unknown error"

\* data.choices[0]?.message?.content || '' once data.choices is an array
choicesContent(choices) ==
    IF Len(choices) = 0 THEN ""
    ELSE IF ~Has(choices[1], "message") THEN ""
    ELSE IF Falsy(choices[1].message, "content") THEN ""
    ELSE choices[1].message.content

\* data.content[0]?.text || '' once data.content is an array
contentText(content) ==
    IF Len(content) = 0 THEN ""
    ELSE IF Falsy(content[1], "text") THEN ""
    ELSE content[1].text

Returned(value) == [threw |-> FALSE, value |-> value]

\* callClaude reading the reply as callOpenAI does.
callClaude_return_choices(r) ==
    IF ~ok(r)
    THEN IF ~r.parseable THEN Threw(JsonSyntaxError)
         ELSE Threw(<<"Claude API error: ", upstreamErrorText(r.json)>>)
    ELSE IF ~r.parseable THEN Threw(JsonSyntaxError)
    ELSE IF ~Has(r.json, "choices") THEN Threw(IndexUndefinedError)
    ELSE Returned([content |-> choicesContent(r.json.choices),
                   usage |-> Get(r.json, "usage"),
                   model |-> Get(r.json, "model")])

\* What each call does with the response fetch resolved with: the value it
\* returns, or the Error it throws.
callOpenAI_return(r) ==
    IF ~ok(r)
    THEN IF ~r.parseable THEN Threw(JsonSyntaxError)
         ELSE Threw(<<"OpenAI API error: ", upstreamErrorText(r.json)>>)
    ELSE IF ~r.parseable THEN Threw(JsonSyntaxError)
    ELSE IF ~Has(r.json, "choices") THEN Threw(IndexUndefinedError)
    ELSE Returned([content |-> choicesContent(r.json.choices),
                   usage |-> Get(r.json, "usage"),
                   model |-> Get(r.json, "model")])

callClaude_return(r) ==
    IF ~ok(r)
    THEN IF ~r.parseable THEN Threw(JsonSyntaxError)
         ELSE Threw(<<"Claude API error: ", upstreamErrorText(r.json)>>)
    ELSE IF ~r.parseable THEN Threw(JsonSyntaxError)
    ELSE IF ~Has(r.json, "content") THEN Threw(IndexUndefinedError)
    ELSE Returned([content |-> contentText(r.json.content),
                   usage |-> Get(r.json, "usage"),
                   model |-> Get(r.json, "model")])

callMistral_return(r) ==
    IF ~ok(r)
    THEN IF ~r.parseable THEN Threw(JsonSyntaxError)
         ELSE Threw(<<"Mistral API error: ", upstreamErrorText(r.json)>>)
    ELSE IF ~r.parseable THEN Threw(JsonSyntaxError)
    ELSE IF ~Has(r.json, "choices") THEN Threw(IndexUndefinedError)
    ELSE Returned([content |-> choicesContent(r.json.choices),
                   usage |-> Get(r.json, "usage"),
                   model |-> Get(r.json, "model")])

(* ------------------------------ the handler --------------------------- *)

corsHeaders ==
    ("Access-Control-Allow-Origin" :> "*")
        @@ ("Access-Control-Allow-Headers"
                :> "authorization, x-client-info, apikey, content-type")
        @@ ("Access-Control-Allow-Methods" :> "POST, GET, OPTIONS, PUT, DELETE, PATCH")
        @@ ("Access-Control-Max-Age" :> "86400")
        @@ ("Access-Control-Allow-Credentials" :> "false")

jsonHeaders == ("Content-Type" :> "application/json") @@ corsHeaders

\* new Response(null, {status: 200, headers: corsHeaders})
preflightResponse ==
    [status |-> 200, headers |-> corsHeaders, hasBody |-> FALSE, body |-> EmptyObject]

\* new Response(JSON.stringify(response), {headers}): the status defaults to 200.
successResponse(value) ==
    [status |-> 200, headers |-> jsonHeaders, hasBody |-> TRUE,
     body |-> JSONstringify(value)]

\* The catch block without status: 500, so that the status defaults to 200.
errorResponse_defaultStatus(req, error) ==
    [status |-> 200, headers |-> jsonHeaders, hasBody |-> TRUE,
     body |-> [error |-> [code |-> "CHAT_COMPLETION_FAILED",
                          message |-> error.message,
                          provider |-> IF Falsy(req, "provider") THEN "unknown"
                                       ELSE req.provider]]]

\* The catch block.  req is the Request object, which has a method and a
\* body and no provider property.
errorResponse(req, error) ==
    [status |-> 500, headers |-> jsonHeaders, hasBody |-> TRUE,
     body |-> [error |-> [code |-> "CHAT_COMPLETION_FAILED",
                          message |-> error.message,
                          provider |-> IF Falsy(req, "provider") THEN "unknown"
                                       ELSE req.provider]]]

NotThrown == [threw |-> FALSE]

\* validation without the check for an empty array.
validation_emptyAccepted(b) ==
    IF ~Has(b, "messages") \/ ~b.messages.isArray
    THEN Threw(<<"Messages array is required">>)
    ELSE IF Falsy(b, "model") \/ Falsy(b, "provider")
    THEN Threw(<<"Model and provider are required">>)
    ELSE NotThrown

\* validation with its two checks in the other order.
validation_fieldsFirst(b) ==
    IF Falsy(b, "model") \/ Falsy(b, "provider")
    THEN Threw(<<"Model and provider are required">>)
    ELSE IF ~Has(b, "messages") \/ ~b.messages.isArray \/ Len(b.messages.items) = 0
    THEN Threw(<<"Messages array is required">>)
    ELSE NotThrown

\* The two validation checks.
validation(b) ==
    IF ~Has(b, "messages") \/ ~b.messages.isArray \/ Len(b.messages.items) = 0
    THEN Threw(<<"Messages array is required">>)
    ELSE IF Falsy(b, "model") \/ Falsy(b, "provider")
    THEN Threw(<<"Model and provider are required">>)
    ELSE NotThrown

\* The environment variable the credential switch reads for a provider.
envVarOf(provider) ==
    CASE provider = "openai" -> "OPENAI_API_KEY"
      [] provider = "claude" -> "ANTHROPIC_API_KEY"
      [] provider = "mistral" -> "MISTRAL_API_KEY"

\* resolveApiKey whose switch has no default case: an unknown provider
\* leaves apiKey undefined.
resolveApiKey_noDefault(b, e) ==
    IF ~Falsy(b, "userApiKey")
    THEN [threw |-> FALSE, apiKey |-> b.userApiKey, reads |-> {}]
    ELSE IF b.provider \notin {"openai", "claude", "mistral"}
    THEN Threw(<<"API key not found for provider: ", b.provider>>) @@ [reads |-> {}]
    ELSE IF Falsy(e, envVarOf(b.provider))
    THEN Threw(<<"API key not found for provider: ", b.provider>>)
            @@ [reads |-> {envVarOf(b.provider)}]
    ELSE [threw |-> FALSE, apiKey |-> e[envVarOf(b.provider)],
          reads |-> {envVarOf(b.provider)}]

\* resolveApiKey without the final if (!apiKey) throw.
resolveApiKey_unchecked(b, e) ==
    IF ~Falsy(b, "userApiKey")
    THEN [threw |-> FALSE, apiKey |-> b.userApiKey, reads |-> {}]
    ELSE IF b.provider \notin {"openai", "claude", "mistral"}
    THEN Threw(<<"Unsupported provider: ", b.provider>>) @@ [reads |-> {}]
    ELSE [threw |-> FALSE, apiKey |-> Get(e, envVarOf(b.provider)),
          reads |-> {envVarOf(b.provider)}]

\* resolveApiKey that prefers the environment credential to the caller's.
resolveApiKey_envFirst(b, e) ==
    IF b.provider \in {"openai", "claude", "mistral"} /\ ~Falsy(e, envVarOf(b.provider))
    THEN [threw |-> FALSE, apiKey |-> e[envVarOf(b.provider)],
          reads |-> {envVarOf(b.provider)}]
    ELSE IF ~Falsy(b, "userApiKey")
    THEN [threw |-> FALSE, apiKey |-> b.userApiKey, reads |-> {}]
    ELSE IF b.provider \notin {"openai", "claude", "mistral"}
    THEN Threw(<<"Unsupported provider: ", b.provider>>) @@ [reads |-> {}]
    ELSE Threw(<<"API key not found for provider: ", b.provider>>)
            @@ [reads |-> {envVarOf(b.provider)}]

\* let apiKey = userApiKey; if (!apiKey) switch (provider) ...; if (!apiKey) throw.
\* reads: the variables Deno.env.get was called with.
resolveApiKey(b, e) ==
    IF ~Falsy(b, "userApiKey")
    THEN [threw |-> FALSE, apiKey |-> b.userApiKey, reads |-> {}]
    ELSE IF b.provider \notin {"openai", "claude", "mistral"}
    THEN Threw(<<"Unsupported provider: ", b.provider>>) @@ [reads |-> {}]
    ELSE IF Falsy(e, envVarOf(b.provider))
    THEN Threw(<<"API key not found for provider: ", b.provider>>)
            @@ [reads |-> {envVarOf(b.provider)}]
    ELSE [threw |-> FALSE, apiKey |-> e[envVarOf(b.provider)],
          reads |-> {envVarOf(b.provider)}]

\* The destructuring without forwarding: the flag is always false.
streamOf_alwaysFalse(b) == FALSE

\* const { ..., stream = false, ... }
streamOf(b) == IF Has(b, "stream") THEN b.stream ELSE FALSE

\* dispatch whose claude case calls callOpenAI.
dispatch_claudeViaOpenAI(b, apiKey) ==
    LET formattedMessages == formatMessagesForProvider(b.messages.items, b.provider)
    IN  CASE b.provider \in {"openai", "claude"} ->
                [threw |-> FALSE,
                 call |-> callOpenAI_fetch(formattedMessages, b.model, apiKey, streamOf(b))]
          [] b.provider = "mistral" ->
                [threw |-> FALSE,
                 call |-> callMistral_fetch(formattedMessages, b.model, apiKey, streamOf(b))]
          [] OTHER -> Threw(<<"Unsupported provider: ", b.provider>>)

\* dispatch whose switch lacks the mistral case.
dispatch_noMistral(b, apiKey) ==
    LET formattedMessages == formatMessagesForProvider(b.messages.items, b.provider)
    IN  CASE b.provider = "openai" ->
                [threw |-> FALSE,
                 call |-> callOpenAI_fetch(formattedMessages, b.model, apiKey, streamOf(b))]
          [] b.provider = "claude" ->
                [threw |-> FALSE,
                 call |-> callClaude_fetch(formattedMessages, b.model, apiKey, streamOf(b))]
          [] OTHER -> Threw(<<"Unsupported provider: ", b.provider>>)

\* formatMessagesForProvider, then the dispatch switch up to the fetch of
\* the call it selects.
dispatch(b, apiKey) ==
    LET formattedMessages == formatMessagesForProvider(b.messages.items, b.provider)
    IN  CASE b.provider = "openai" ->
                [threw |-> FALSE,
                 call |-> callOpenAI_fetch(formattedMessages, b.model, apiKey, streamOf(b))]
          [] b.provider = "claude" ->
                [threw |-> FALSE,
                 call |-> callClaude_fetch(formattedMessages, b.model, apiKey, streamOf(b))]
          [] b.provider = "mistral" ->
                [threw |-> FALSE,
                 call |-> callMistral_fetch(formattedMessages, b.model, apiKey, streamOf(b))]
          [] OTHER -> Threw(<<"Unsupported provider: ", b.provider>>)

Responded(r, reads) == [response |-> <<r>>, calls |-> <<>>, reads |-> reads]

\* The statements the handler executes for a parsed body, in the order it
\* executes them, up to its throw or its fetch.  Each is named by what it
\* does: a validation check ("validate", and "checkProvider" for a switch
\* deciding whether the provider is one it knows), the binding of apiKey
\* ("credential"), formatMessagesForProvider ("transform"), the call of
\* callOpenAI/callClaude/callMistral ("dispatch").
handlerSteps(b, e) ==
    IF ~Has(b, "messages") \/ ~b.messages.isArray \/ Len(b.messages.items) = 0
    THEN <<"validate">>
    ELSE IF Falsy(b, "model") \/ Falsy(b, "provider")
    THEN <<"validate", "validate">>
    ELSE LET known == b.provider \in {"openai", "claude", "mistral"}
             resolved ==
                IF ~Falsy(b, "userApiKey") THEN <<"credential">>
                ELSE IF known THEN <<"checkProvider", "credential">>
                ELSE <<"checkProvider">>
             k == resolveApiKey(b, e)
         IN  <<"validate", "validate">> \o resolved
                \o (IF k.threw THEN <<>>
                    ELSE <<"transform", "checkProvider">>
                            \o (IF known THEN <<"dispatch">> ELSE <<>>))

\* The handler with the OPTIONS check moved inside the try block, after
\* req.json().
serve_preflightAfterParse(req, e) ==
    IF ~req.body.parseable
    THEN Responded(errorResponse(req, Threw(JsonSyntaxError)), {})
    ELSE IF req.method = "OPTIONS" THEN Responded(preflightResponse, {})
    ELSE LET b == req.body.json
             v == validation(b)
         IN  IF v.threw THEN Responded(errorResponse(req, v), {})
             ELSE LET k == resolveApiKey(b, e)
                  IN  IF k.threw THEN Responded(errorResponse(req, k), k.reads)
                      ELSE LET d == dispatch(b, k.apiKey)
                           IN  IF d.threw
                               THEN Responded(errorResponse(req, d), k.reads)
                               ELSE [response |-> <<>>, calls |-> <<d.call>>,
                                     reads |-> k.reads]

\* The handler from its entry to its first upstream await: it has either
\* returned a response or issued one fetch.
serve(req, e) ==
    IF req.method = "OPTIONS" THEN Responded(preflightResponse, {})
    ELSE IF ~req.body.parseable
    THEN Responded(errorResponse(req, Threw(JsonSyntaxError)), {})
    ELSE LET b == req.body.json
             v == validation(b)
         IN  IF v.threw THEN Responded(errorResponse(req, v), {})
             ELSE LET k == resolveApiKey(b, e)
                  IN  IF k.threw THEN Responded(errorResponse(req, k), k.reads)
                      ELSE LET d == dispatch(b, k.apiKey)
                           IN  IF d.threw
                               THEN Responded(errorResponse(req, d), k.reads)
                               ELSE [response |-> <<>>, calls |-> <<d.call>>,
                                     reads |-> k.reads]

\* settle answering a failed call with a result that also carries the error.
settle_resultWithError(req, call, r) ==
    LET p == req.body.json.provider
        out == IF r.failed
               THEN Threw(<<"error sending request for url (", call.url, ")">>)
               ELSE CASE p = "openai" -> callOpenAI_return(r)
                      [] p = "claude" -> callClaude_return(r)
                      [] p = "mistral" -> callMistral_return(r)
    IN  IF out.threw
        THEN [status |-> 200, headers |-> jsonHeaders, hasBody |-> TRUE,
              body |-> [content |-> "", error |-> errorResponse(req, out).body.error]]
        ELSE successResponse(out.value)

\* The rest of the selected call once fetch has settled with r, and the
\* response the handler then returns.
settle(req, call, r) ==
    LET p == req.body.json.provider
        out == IF r.failed
               THEN Threw(<<"error sending request for url (", call.url, ")">>)
               ELSE CASE p = "openai" -> callOpenAI_return(r)
                      [] p = "claude" -> callClaude_return(r)
                      [] p = "mistral" -> callMistral_return(r)
    IN  IF out.threw THEN errorResponse(req, out) ELSE successResponse(out.value)

\* ChatContext.tsx: the state the reducer starts from.
initialState ==
    [conversations |-> <<>>,
     currentConversationId |-> Null,
     isLoading |-> FALSE,
     selectedModel |-> "gpt-4",
     selectedProvider |-> "openai",
     systemPrompt |-> "You are a helpful AI assistant with access to code execution and data visualization capabilities."]

(* ------------------------------- actions ------------------------------ *)

Init ==
    /\ env \in Environments
    /\ pc = [i \in Invocations |-> "idle"]
    /\ request = [i \in Invocations |-> <<>>]
    /\ envReads = [i \in Invocations |-> {}]
    /\ calls = [i \in Invocations |-> <<>>]
    /\ reply = [i \in Invocations |-> <<>>]
    /\ response = [i \in Invocations |-> <<>>]
    /\ fnEnv = [SUPABASE_SERVICE_ROLE_KEY |-> "service-role-key",
                SUPABASE_URL |-> "https://proj.supabase.co"]
    /\ fnPc = "idle"
    /\ fnRequest = <<>>
    /\ fnLocals = EmptyObject
    /\ fnCalls = <<>>
    /\ fnResponse = <<>>
    /\ storage = {}
    /\ file_uploads = {}
    /\ code_executions = {}
    /\ executed = {}
    /\ clock = 0
    /\ state = initialState
    /\ sends = <<>>
    /\ uuid = 0

\* Receive keeping the caller's key for the provider in the environment.
Receive_cachesKey(i) ==
    /\ pc[i] = "idle"
    /\ \E req \in Requests :
        LET o == serve(req, env)
        IN  /\ request' = [request EXCEPT ![i] = <<req>>]
            /\ envReads' = [envReads EXCEPT ![i] = o.reads]
            /\ calls' = [calls EXCEPT ![i] = o.calls]
            /\ response' = [response EXCEPT ![i] = o.response]
            /\ pc' = [pc EXCEPT ![i] = IF Len(o.response) = 0 THEN "fetching" ELSE "done"]
            /\ env' = IF Len(o.calls) = 1 /\ ~Falsy(req.body.json, "userApiKey")
                      THEN (envVarOf(req.body.json.provider) :> req.body.json.userApiKey) @@ env
                      ELSE env
    /\ UNCHANGED <<reply, fnVars, chatVars>>

\* A request arrives and the handler runs until it returns or awaits fetch.
Receive(i) ==
    /\ pc[i] = "idle"
    /\ \E req \in Requests :
        LET o == serve(req, env)
        IN  /\ request' = [request EXCEPT ![i] = <<req>>]
            /\ envReads' = [envReads EXCEPT ![i] = o.reads]
            /\ calls' = [calls EXCEPT ![i] = o.calls]
            /\ response' = [response EXCEPT ![i] = o.response]
            /\ pc' = [pc EXCEPT ![i] = IF Len(o.response) = 0 THEN "fetching" ELSE "done"]
    /\ UNCHANGED <<env, reply, fnVars, chatVars>>

\* fetch resolves with the upstream's HTTP response; the call reads its body
\* and the handler returns.
UpstreamResponds(i) ==
    /\ pc[i] = "fetching"
    /\ \E r \in UpstreamResponses :
        /\ reply' = [reply EXCEPT ![i] = <<r>>]
        /\ response' = [response EXCEPT ![i] = <<settle(request[i][1], calls[i][1], r)>>]
    /\ pc' = [pc EXCEPT ![i] = "done"]
    /\ UNCHANGED <<env, request, envReads, calls, fnVars, chatVars>>

\* fetch rejects: the upstream could not be reached.
NetworkFailure(i) ==
    /\ pc[i] = "fetching"
    /\ reply' = [reply EXCEPT ![i] = <<NetworkFailureReply>>]
    /\ response' = [response EXCEPT ![i] =
                        <<settle(request[i][1], calls[i][1], NetworkFailureReply)>>]
    /\ pc' = [pc EXCEPT ![i] = "done"]
    /\ UNCHANGED <<env, request, envReads, calls, fnVars, chatVars>>

\* The response is delivered; nothing of the invocation is kept.
Return(i) ==
    /\ pc[i] = "done"
    /\ pc' = [pc EXCEPT ![i] = "idle"]
    /\ request' = [request EXCEPT ![i] = <<>>]
    /\ envReads' = [envReads EXCEPT ![i] = {}]
    /\ calls' = [calls EXCEPT ![i] = <<>>]
    /\ reply' = [reply EXCEPT ![i] = <<>>]
    /\ response' = [response EXCEPT ![i] = <<>>]
    /\ UNCHANGED <<env, fnVars, chatVars>>

\* The function serving its requests one after the other.
Next ==
    \/ Receive(1)
    \/ UpstreamResponds(1)
    \/ NetworkFailure(1)
    \/ Return(1)

Spec == Init /\ [][Next]_vars

\* The requests and the upstream replies of the concurrent invocations: a
\* sample of Requests and of UpstreamResponses.
ConcurrentRequests ==
    {[method |-> "POST",
      body |-> [parseable |-> TRUE,
                json |-> [messages |-> [isArray |-> TRUE,
                                        items |-> <<[role |-> "user", content |-> c]>>],
                          model |-> "gpt-4",
                          provider |-> p] @@ Opt("userApiKey", k)]] :
        c \in {"hi", "yo"}, p \in {"openai", "claude"}, k \in Maybe({"sk-user"})}

ConcurrentResponses ==
    {HttpResponse(200, TRUE,
        ("id" :> "resp-1")
            @@ ("choices" :> <<[index |-> 0,
                                message |-> [role |-> "assistant", content |-> "hi"]]>>)),
     HttpResponse(200, TRUE,
        ("id" :> "resp-1") @@ ("content" :> <<[type |-> "text", text |-> "hi"]>>)),
     HttpResponse(401, TRUE, "error" :> [type |-> "auth", message |-> "invalid key"])}

\* ConcurrentUpstreamResponds computing the response from a request kept in
\* one place for all invocations.
ConcurrentUpstreamResponds_sharedRequest(i) ==
    /\ pc[i] = "fetching"
    /\ \E r \in ConcurrentResponses :
        /\ reply' = [reply EXCEPT ![i] = <<r>>]
        /\ response' = [response EXCEPT ![i] =
                LET j == CHOOSE k \in Invocations :
                            Len(calls[k]) = 1 /\ \A l \in 1..(k - 1) : Len(calls[l]) = 0
                IN  <<settle(request[j][1], calls[j][1], r)>>]
    /\ pc' = [pc EXCEPT ![i] = "done"]
    /\ UNCHANGED <<env, request, envReads, calls, fnVars, chatVars>>

\* Receive and UpstreamResponds over the sample.
ConcurrentReceive(i) ==
    /\ pc[i] = "idle"
    /\ \E req \in ConcurrentRequests :
        LET o == serve(req, env)
        IN  /\ request' = [request EXCEPT ![i] = <<req>>]
            /\ envReads' = [envReads EXCEPT ![i] = o.reads]
            /\ calls' = [calls EXCEPT ![i] = o.calls]
            /\ response' = [response EXCEPT ![i] = o.response]
            /\ pc' = [pc EXCEPT ![i] = IF Len(o.response) = 0 THEN "fetching" ELSE "done"]
    /\ UNCHANGED <<env, reply, fnVars, chatVars>>

ConcurrentUpstreamResponds(i) ==
    /\ pc[i] = "fetching"
    /\ \E r \in ConcurrentResponses :
        /\ reply' = [reply EXCEPT ![i] = <<r>>]
        /\ response' = [response EXCEPT ![i] = <<settle(request[i][1], calls[i][1], r)>>]
    /\ pc' = [pc EXCEPT ![i] = "done"]
    /\ UNCHANGED <<env, request, envReads, calls, fnVars, chatVars>>

ConcurrentNext ==
    \E i \in Invocations :
        \/ ConcurrentReceive(i)
        \/ ConcurrentUpstreamResponds(i)
        \/ NetworkFailure(i)
        \/ Return(i)

\* The function serving its requests concurrently: every invocation runs
\* between its awaits, in any interleaving with the others.
SpecConcurrent == Init /\ [][ConcurrentNext]_vars

\* The same function with the runtime's guarantee that a handler whose
\* response is ready delivers it.  Nothing obliges the upstream to answer:
\* fetch is called without a signal or a timeout.
SpecLive == Init /\ [][Next]_vars /\ WF_vars(Return(1))

(* ---------------- file-upload.ts and code-execution.ts ----------------- *)
(* The two functions open with the same statements (CORS preflight,        *)
(* req.json(), a required-fields check, the authorization header, the      *)
(* Supabase configuration, the auth service's verdict on the token) and    *)
(* then write to Supabase over HTTP.  The runtime is modelled serving one  *)
(* request at a time; the two functions share no state but the tables      *)
(* and the bucket, which persist from one request to the next.             *)

FunctionNames == {"file-upload", "code-execution"}

FnEnvVars == {"SUPABASE_SERVICE_ROLE_KEY", "SUPABASE_URL"}

FnEnvValue(var) ==
    CASE var = "SUPABASE_SERVICE_ROLE_KEY" -> "service-role-key"
      [] var = "SUPABASE_URL" -> "https://proj.supabase.co"

FnEnvironments == {[v \in S |-> FnEnvValue(v)] : S \in SUBSET FnEnvVars}

\* The sessions the auth service knows, and their user.
ValidTokens == {"tok-good"}

UserOf(token) == "user-1"

\* The authorization header of a request, as the parts of its value.
AuthorizationValues ==
    {<<"Bearer ", "tok-good">>, <<"Bearer ", "tok-bad">>, <<"tok-good">>}

HeadersValues == {Opt("authorization", h) : h \in Maybe(AuthorizationValues)}

allowedTypes ==
    {"image/jpeg", "image/png", "image/gif", "image/webp",
     "text/plain", "text/csv", "application/json", "application/pdf"}

maxSize == 10 * 1024 * 1024

\* A data URL "data:<mime>;base64,<payload>": its media type ("" when the
\* URL has none), whether atob accepts the payload, and the number of bytes
\* the payload decodes to.
DataUrls ==
    [mime : {"image/png", "text/html", ""}, base64 : {TRUE},
     size : {maxSize, maxSize + 1}]
        \cup {[mime |-> "image/png", base64 |-> FALSE, size |-> 0]}

FileTypeValues == {"image/png", "text/html"}

FileUploadBodies ==
    {Opt("fileData", d) @@ Opt("fileName", n) @@ Opt("fileType", t)
            @@ Opt("conversationId", c) :
        d \in Maybe(DataUrls), n \in Maybe({"a.png", ""}),
        t \in Maybe(FileTypeValues), c \in Maybe({"conv-1"})}

\* The code samples of the requests and the languages they name.
CodeValues == {"return 1+1", "throw new Error('boom')", "print('hi')"}

LanguageValues == {"python", "JavaScript", "ts", "ruby"}

CodeExecutionBodies ==
    {Opt("code", c) @@ Opt("language", l) @@ Opt("messageId", m) :
        c \in Maybe(CodeValues \cup {""}), l \in Maybe(LanguageValues),
        m \in Maybe({"msg-1"})}

FnBodies(fn) ==
    {[parseable |-> FALSE, json |-> EmptyObject]}
        \cup {[parseable |-> TRUE, json |-> b] :
                b \in IF fn = "file-upload" THEN FileUploadBodies
                      ELSE CodeExecutionBodies}

FnRequests ==
    UNION {[fn : {fn}, method : {"POST", "OPTIONS"}, headers : HeadersValues,
            body : FnBodies(fn)] : fn \in FunctionNames}

\* What fetch resolves with (ok, and the body: an object, an array as the
\* object of its indices, or a text as [text |-> t]), or its rejection.
FetchRejected == [failed |-> TRUE, ok |-> FALSE, body |-> EmptyObject]

FetchResolved(isOk, body) == [failed |-> FALSE, ok |-> isOk, body |-> body]

FetchRejectedError == <<"error sending request">>

\* authHeader.replace('Bearer ', ''): the first occurrence is removed.
replaceBearer(authHeader) ==
    IF authHeader[1] = "Bearer " THEN Tail(authHeader) ELSE authHeader

\* The catch block of either function.
fnErrorResponse(fn, error) ==
    [status |-> 500, headers |-> jsonHeaders, hasBody |-> TRUE,
     body |-> [error |-> [code |-> IF fn = "file-upload" THEN "FILE_UPLOAD_FAILED"
                                   ELSE "CODE_EXECUTION_FAILED",
                          message |-> error.message]]]

\* The required-fields check of either function.
requiredFields(fn, b) ==
    IF fn = "file-upload"
    THEN IF ~Has(b, "fileData") \/ Falsy(b, "fileName")
         THEN Threw(<<"File data and filename are required">>)
         ELSE NotThrown
    ELSE IF Falsy(b, "code") \/ Falsy(b, "language")
         THEN Threw(<<"Code and language are required">>)
         ELSE NotThrown

\* The authorization header, the configuration and the call to the auth
\* service.
authenticate(req, e) ==
    IF ~Has(req.headers, "authorization")
    THEN Threw(<<"No authorization header">>)
    ELSE IF Falsy(e, "SUPABASE_SERVICE_ROLE_KEY") \/ Falsy(e, "SUPABASE_URL")
    THEN Threw(<<"Supabase configuration missing">>)
    ELSE [threw |-> FALSE,
          call |-> [url |-> <<e.SUPABASE_URL, "/auth/v1/user">>,
                    method |-> "GET",
                    headers |-> [Authorization |->
                                    <<"Bearer ">> \o replaceBearer(req.headers.authorization),
                                 apikey |-> e.SUPABASE_SERVICE_ROLE_KEY]]]

\* Either handler from its entry to the await of the auth service.
fnServe(req, e) ==
    IF req.method = "OPTIONS" THEN Responded(preflightResponse, {})
    ELSE IF ~req.body.parseable
    THEN Responded(fnErrorResponse(req.fn, Threw(JsonSyntaxError)), {})
    ELSE LET v == requiredFields(req.fn, req.body.json)
         IN  IF v.threw THEN Responded(fnErrorResponse(req.fn, v), {})
             ELSE LET a == authenticate(req, e)
                  IN  IF a.threw THEN Responded(fnErrorResponse(req.fn, a), {})
                      ELSE [response |-> <<>>, calls |-> <<a.call>>, reads |-> FnEnvVars]

\* GET /auth/v1/user: the user of a known session, or 401.
authService(call) ==
    IF /\ Len(call.headers.Authorization) = 2
       /\ call.headers.Authorization[1] = "Bearer "
       /\ call.headers.Authorization[2] \in ValidTokens
    THEN FetchResolved(TRUE, [id |-> UserOf(call.headers.Authorization[2])])
    ELSE FetchResolved(FALSE, [message |-> "invalid JWT"])

\* The handler without the check of userResponse.ok.
userIdOf_unchecked(userResponse) ==
    IF userResponse.failed THEN Threw(FetchRejectedError)
    ELSE [threw |-> FALSE, userId |-> Get(userResponse.body, "id")]

\* if (!userResponse.ok) throw; userId = (await userResponse.json()).id
userIdOf(userResponse) ==
    IF userResponse.failed THEN Threw(FetchRejectedError)
    ELSE IF ~userResponse.ok THEN Threw(<<"Invalid token">>)
    ELSE [threw |-> FALSE, userId |-> userResponse.body.id]

\* fileData.split(';')[0].split(':')[1] || fileType
mimeTypeOf(b) ==
    IF b.fileData.mime # "" THEN b.fileData.mime ELSE Get(b, "fileType")

\* The type and size validation of file-upload and the constants it binds.
fileUpload_validate(b, now, userId) ==
    IF ~Falsy(b, "fileType") /\ b.fileType \notin allowedTypes
    THEN Threw(<<"File type ", b.fileType, " not allowed">>)
    ELSE IF ~b.fileData.base64
    THEN Threw(<<"Failed to decode base64">>)
    ELSE IF b.fileData.size > maxSize
    THEN Threw(<<"File size exceeds 10MB limit">>)
    ELSE [threw |-> FALSE,
          userId |-> userId,
          mimeType |-> mimeTypeOf(b),
          size |-> b.fileData.size,
          timestamp |-> now,
          storagePath |-> <<"uploads/", userId, "/", now, "-", b.fileName>>]

\* POST /storage/v1/object/chat-files/<storagePath>
fileUpload_storageCall(e, l) ==
    [url |-> <<e.SUPABASE_URL, "/storage/v1/object/chat-files/">> \o l.storagePath,
     method |-> "POST",
     headers |-> ("Authorization" :> <<"Bearer ", e.SUPABASE_SERVICE_ROLE_KEY>>)
                    @@ ("Content-Type" :> l.mimeType)
                    @@ ("x-upsert" :> "true"),
     body |-> [length |-> l.size]]

publicUrlOf(e, l) ==
    <<e.SUPABASE_URL, "/storage/v1/object/public/chat-files/">> \o l.storagePath

fileRecord(b, e, l) ==
    JSONstringify([user_id |-> l.userId,
                   conversation_id |-> Get(b, "conversationId"),
                   filename |-> b.fileName,
                   file_type |-> l.mimeType])
        @@ [file_size |-> l.size,
            storage_path |-> l.storagePath,
            metadata |-> [public_url |-> publicUrlOf(e, l),
                          upload_timestamp |-> l.timestamp]]

\* POST /rest/v1/file_uploads
fileUpload_insertCall(b, e, l) ==
    [url |-> <<e.SUPABASE_URL, "/rest/v1/file_uploads">>,
     method |-> "POST",
     headers |-> ("Authorization" :> <<"Bearer ", e.SUPABASE_SERVICE_ROLE_KEY>>)
                    @@ ("apikey" :> e.SUPABASE_SERVICE_ROLE_KEY)
                    @@ ("Content-Type" :> "application/json")
                    @@ ("Prefer" :> "return=representation"),
     body |-> fileRecord(b, e, l)]

\* The storage service accepting the object (x-upsert replaces the object
\* at the same path), and the database accepting the row.
storageWrite(objects, call) ==
    LET path == SubSeq(call.url, 3, Len(call.url))
    IN  {o \in objects : o.path # path}
            \cup {[path |-> path, contentType |-> call.headers["Content-Type"],
                   size |-> call.body.length]}

insertedRow(call, id) == [id |-> id] @@ call.body

\* What the handler does with the storage service's reply.
fileUpload_uploaded(uploadResponse) ==
    IF uploadResponse.failed THEN Threw(FetchRejectedError)
    ELSE IF ~uploadResponse.ok THEN Threw(<<"Upload failed: ", uploadResponse.body.text>>)
    ELSE NotThrown

\* What the handler does with the database's reply: the success response.
fileUpload_inserted(b, e, l, insertResponse) ==
    IF insertResponse.failed THEN Threw(FetchRejectedError)
    ELSE IF ~insertResponse.ok
    THEN Threw(<<"Database insert failed: ", insertResponse.body.text>>)
    ELSE Returned([data |-> [id |-> insertResponse.body["0"].id,
                             publicUrl |-> publicUrlOf(e, l),
                             fileName |-> b.fileName,
                             fileType |-> l.mimeType,
                             fileSize |-> l.size,
                             storagePath |-> l.storagePath]])

fnSuccessResponse(value) ==
    [status |-> 200, headers |-> jsonHeaders, hasBody |-> TRUE, body |-> value]

\* language.toLowerCase()
toLowerCase(language) ==
    IF language = "JavaScript" THEN "javascript" ELSE language

\* executePython: the simulated run.
executePython(code) ==
    IF code = "print('hi')"
    THEN [output |-> "hi\n", error |-> Null, executionTime |-> 150]
    ELSE [output |-> "Code executed successfully\n", error |-> Null,
          executionTime |-> 100]

\* executeJavaScript: eval of the code wrapped in a function.
executeJavaScript(code) ==
    CASE code = "return 1+1" ->
            [output |-> "2\n", error |-> Null, executionTime |-> 50]
      [] code = "throw new Error('boom')" ->
            [output |-> "", error |-> "boom", executionTime |-> 25]
      [] code = "print('hi')" ->
            [output |-> "", error |-> "print is not defined", executionTime |-> 25]

executeTypeScript(code) == executeJavaScript(code)

\* The languages the switch has a case for.
SupportedLanguages == {"python", "javascript", "js", "typescript", "ts"}

\* The inner try block: the switch on the language and its catch.
execute(language, code, elapsed) ==
    LET l == toLowerCase(language)
    IN  CASE l = "python" -> executePython(code)
          [] l \in {"javascript", "js"} -> executeJavaScript(code)
          [] l \in {"typescript", "ts"} -> executeTypeScript(code)
          [] OTHER -> [output |-> "",
                       error |-> "Unsupported language: " \o language,
                       executionTime |-> elapsed]

\* result.error ? 'failed' : 'completed'
statusOf(result) ==
    IF result.error = Null \/ result.error = "" THEN "completed" ELSE "failed"

\* POST /rest/v1/code_executions
codeExecution_insertCall(b, e, l) ==
    [url |-> <<e.SUPABASE_URL, "/rest/v1/code_executions">>,
     method |-> "POST",
     headers |-> ("Authorization" :> <<"Bearer ", e.SUPABASE_SERVICE_ROLE_KEY>>)
                    @@ ("apikey" :> e.SUPABASE_SERVICE_ROLE_KEY)
                    @@ ("Content-Type" :> "application/json"),
     body |-> JSONstringify([user_id |-> l.userId,
                             message_id |-> Get(b, "messageId"),
                             language |-> b.language,
                             code |-> b.code,
                             status |-> "running"])
                @@ [id |-> l.executionId]]

\* PATCH /rest/v1/code_executions?id=eq.<executionId>
codeExecution_updateCall(e, l, result) ==
    [url |-> <<e.SUPABASE_URL, "/rest/v1/code_executions?id=eq.", l.executionId>>,
     method |-> "PATCH",
     headers |-> ("Authorization" :> <<"Bearer ", e.SUPABASE_SERVICE_ROLE_KEY>>)
                    @@ ("apikey" :> e.SUPABASE_SERVICE_ROLE_KEY)
                    @@ ("Content-Type" :> "application/json"),
     body |-> [output |-> result.output,
               error_output |-> result.error,
               execution_time_ms |-> result.executionTime,
               status |-> statusOf(result)]]

\* The database applying the PATCH to the rows with the id.
updatedRows(rows, call) ==
    {IF r.id = call.url[3] THEN call.body @@ r ELSE r : r \in rows}

codeExecution_response(b, l, result) ==
    fnSuccessResponse([data |-> [id |-> l.executionId,
                                 output |-> result.output,
                                 error |-> result.error,
                                 executionTime |-> result.executionTime,
                                 language |-> b.language,
                                 status |-> statusOf(result)]])

\* Date.now() - startTime in the inner catch.
Elapsed == {0, 1}

\* The replies of the storage service and of the database to a write they
\* refuse.
RefusedTexts == {"refused"}

FnInit ==
    /\ env = [v \in EnvVars |-> EnvSecret(v)]
    /\ pc = [i \in Invocations |-> "idle"]
    /\ request = [i \in Invocations |-> <<>>]
    /\ envReads = [i \in Invocations |-> {}]
    /\ calls = [i \in Invocations |-> <<>>]
    /\ reply = [i \in Invocations |-> <<>>]
    /\ response = [i \in Invocations |-> <<>>]
    /\ fnEnv \in FnEnvironments
    /\ fnPc = "idle"
    /\ fnRequest = <<>>
    /\ fnLocals = EmptyObject
    /\ fnCalls = <<>>
    /\ fnResponse = <<>>
    /\ storage = {}
    /\ file_uploads = {}
    /\ code_executions = {}
    /\ executed = {}
    /\ clock = 0
    /\ state = initialState
    /\ sends = <<>>
    /\ uuid = 0

\* The handler throws: the catch block answers.
FnFails(error) ==
    /\ fnResponse' = <<fnErrorResponse(fnRequest[1].fn, error)>>
    /\ fnPc' = "done"

\* A request arrives at one of the two functions, whose handler runs until
\* it returns or awaits the auth service.
FnReceive ==
    /\ fnPc = "idle"
    /\ clock < MaxServed
    /\ \E req \in FnRequests :
        LET o == fnServe(req, fnEnv)
        IN  /\ fnRequest' = <<req>>
            /\ fnCalls' = o.calls
            /\ fnResponse' = o.response
            /\ fnPc' = IF Len(o.response) = 0 THEN "auth" ELSE "done"
    /\ clock' = clock + 1
    /\ fnLocals' = EmptyObject
    /\ UNCHANGED <<ccVars, chatVars, fnEnv, storage, file_uploads, code_executions, executed>>

\* file-upload: the auth service answers (or is unreachable); the handler
\* validates the file and posts it to the storage service.
fileUpload_AuthResponds ==
    /\ fnPc = "auth" /\ fnRequest[1].fn = "file-upload"
    /\ \E userResponse \in {authService(fnCalls[1]), FetchRejected} :
        LET u == userIdOf(userResponse)
            v == fileUpload_validate(fnRequest[1].body.json, clock, u.userId)
        IN  IF u.threw THEN FnFails(u) /\ UNCHANGED <<fnLocals, fnCalls>>
            ELSE IF v.threw THEN FnFails(v) /\ UNCHANGED <<fnLocals, fnCalls>>
            ELSE /\ fnLocals' = v
                 /\ fnCalls' = Append(fnCalls, fileUpload_storageCall(fnEnv, v))
                 /\ fnPc' = "uploading"
                 /\ UNCHANGED fnResponse
    /\ UNCHANGED <<ccVars, chatVars, fnEnv, fnRequest, storage, file_uploads,
                   code_executions, executed, clock>>

\* file-upload: the storage service stores the object or refuses it (or is
\* unreachable); the handler posts the metadata row.
fileUpload_StorageResponds ==
    /\ fnPc = "uploading"
    /\ \E uploadResponse \in {FetchResolved(TRUE, [Key |-> "chat-files"]), FetchRejected}
                                \cup {FetchResolved(FALSE, [text |-> t]) : t \in RefusedTexts} :
        /\ storage' = IF uploadResponse.ok THEN storageWrite(storage, fnCalls[2])
                      ELSE storage
        /\ LET u == fileUpload_uploaded(uploadResponse)
           IN  IF u.threw THEN FnFails(u) /\ UNCHANGED fnCalls
               ELSE /\ fnCalls' = Append(fnCalls,
                            fileUpload_insertCall(fnRequest[1].body.json, fnEnv, fnLocals))
                    /\ fnPc' = "inserting"
                    /\ UNCHANGED fnResponse
    /\ UNCHANGED <<ccVars, chatVars, fnEnv, fnRequest, fnLocals, file_uploads,
                   code_executions, executed, clock>>

\* file-upload: the database inserts the row or refuses it (or is
\* unreachable); the handler returns.
fileUpload_InsertResponds ==
    /\ fnPc = "inserting"
    /\ \E insertResponse \in
            {FetchResolved(TRUE, "0" :> insertedRow(fnCalls[3], <<"file", clock>>)),
             FetchRejected}
                \cup {FetchResolved(FALSE, [text |-> t]) : t \in RefusedTexts} :
        /\ file_uploads' = IF insertResponse.ok
                           THEN file_uploads \cup {insertResponse.body["0"]}
                           ELSE file_uploads
        /\ LET r == fileUpload_inserted(fnRequest[1].body.json, fnEnv, fnLocals,
                                        insertResponse)
           IN  IF r.threw THEN FnFails(r)
               ELSE /\ fnResponse' = <<fnSuccessResponse(r.value)>>
                    /\ fnPc' = "done"
    /\ UNCHANGED <<ccVars, chatVars, fnEnv, fnRequest, fnLocals, fnCalls, storage,
                   code_executions, executed, clock>>

\* code-execution: the auth service answers (or is unreachable); the
\* handler posts the execution record with status running.
codeExecution_AuthResponds ==
    /\ fnPc = "auth" /\ fnRequest[1].fn = "code-execution"
    /\ \E userResponse \in {authService(fnCalls[1]), FetchRejected} :
        LET u == userIdOf(userResponse)
            l == [userId |-> u.userId, executionId |-> <<"exec", clock>>]
        IN  IF u.threw THEN FnFails(u) /\ UNCHANGED <<fnLocals, fnCalls>>
            ELSE /\ fnLocals' = l
                 /\ fnCalls' = Append(fnCalls,
                        codeExecution_insertCall(fnRequest[1].body.json, fnEnv, l))
                 /\ fnPc' = "recording"
                 /\ UNCHANGED fnResponse
    /\ UNCHANGED <<ccVars, chatVars, fnEnv, fnRequest, storage, file_uploads,
                   code_executions, executed, clock>>

\* code-execution: the database inserts the record or refuses it (the
\* handler does not look), or is unreachable; the handler runs the code and
\* sends the update of the record.
codeExecution_RecordResponds ==
    /\ fnPc = "recording"
    /\ \E recorded \in {FetchResolved(TRUE, EmptyObject), FetchRejected}
                            \cup {FetchResolved(FALSE, [text |-> t]) : t \in RefusedTexts},
          elapsed \in Elapsed :
        /\ code_executions' = IF recorded.ok
                              THEN code_executions \cup {fnCalls[2].body}
                              ELSE code_executions
        /\ IF recorded.failed
           THEN /\ FnFails(Threw(FetchRejectedError))
                /\ UNCHANGED <<fnLocals, fnCalls, executed>>
           ELSE LET b == fnRequest[1].body.json
                    result == execute(b.language, b.code, elapsed)
                IN  /\ executed' = IF toLowerCase(b.language) \in SupportedLanguages
                                   THEN executed \cup {fnLocals.executionId}
                                   ELSE executed
                    /\ fnLocals' = [result |-> result] @@ fnLocals
                    /\ fnCalls' = Append(fnCalls,
                            codeExecution_updateCall(fnEnv, fnLocals, result))
                    /\ fnPc' = "updating"
                    /\ UNCHANGED fnResponse
    /\ UNCHANGED <<ccVars, chatVars, fnEnv, fnRequest, storage, file_uploads, clock>>

\* code-execution: the database applies the update or refuses it (the
\* handler does not look), or is unreachable; the handler returns.
codeExecution_UpdateResponds ==
    /\ fnPc = "updating"
    /\ \E updated \in {FetchResolved(TRUE, EmptyObject), FetchRejected}
                            \cup {FetchResolved(FALSE, [text |-> t]) : t \in RefusedTexts} :
        /\ code_executions' = IF updated.ok
                              THEN updatedRows(code_executions, fnCalls[3])
                              ELSE code_executions
        /\ IF updated.failed THEN FnFails(Threw(FetchRejectedError))
           ELSE /\ fnResponse' = <<codeExecution_response(fnRequest[1].body.json,
                                        fnLocals, fnLocals.result)>>
                /\ fnPc' = "done"
    /\ UNCHANGED <<ccVars, chatVars, fnEnv, fnRequest, fnLocals, fnCalls, storage,
                   file_uploads, executed, clock>>

\* The response is delivered; the tables and the bucket remain.
FnReturn ==
    /\ fnPc = "done"
    /\ fnPc' = "idle"
    /\ fnRequest' = <<>>
    /\ fnLocals' = EmptyObject
    /\ fnCalls' = <<>>
    /\ fnResponse' = <<>>
    /\ UNCHANGED <<ccVars, chatVars, fnEnv, storage, file_uploads, code_executions,
                   executed, clock>>

FnNext ==
    \/ FnReceive
    \/ fileUpload_AuthResponds
    \/ fileUpload_StorageResponds
    \/ fileUpload_InsertResponds
    \/ codeExecution_AuthResponds
    \/ codeExecution_RecordResponds
    \/ codeExecution_UpdateResponds
    \/ FnReturn

\* The file-upload and code-execution functions in front of Supabase.
SpecFn == FnInit /\ [][FnNext]_vars

(* ------------------------- ChatContext.tsx ----------------------------- *)
(* The chat state of the web client: chatReducer, and the sendMessage of   *)
(* ChatProvider with its await of the (simulated) AI response.  Dates and  *)
(* message metadata are left out: no branch of the code reads them.        *)
(* array.map is a function over the positions, array.filter is SelectSeq.  *)

\* uuidv4(): the n-th identifier handed out.
uuidv4(n) == "id-" \o ToString(n)

ConversationIds == {uuidv4(n) : n \in 1..MaxConvs}

MessageIds == {uuidv4(n) : n \in 1..MaxChatMsgs}

ChatContents == {"hi", "write code", "plot a chart", "analyze data"}

Titles == {"New Chat"}

\* A conversation as createConversation builds it.
newConversation(id, title, st) ==
    [id |-> id, title |-> title, messages |-> <<>>,
     model |-> st.selectedModel, provider |-> st.selectedProvider,
     systemPrompt |-> st.systemPrompt]

newMessage(id, role, content) == [id |-> id, role |-> role, content |-> content]

\* {...a, ...b}: the fields of b override those of a.
Spread(a, b) == b @@ a

chatReducer(st, action) ==
    CASE action.type = "SET_CONVERSATIONS" ->
            [st EXCEPT !.conversations = action.payload]
      [] action.type = "ADD_CONVERSATION" ->
            [st EXCEPT !.conversations = <<action.payload>> \o @,
                       !.currentConversationId = action.payload.id]
      [] action.type = "UPDATE_CONVERSATION" ->
            LET upd(conv) == IF conv.id = action.payload.id
                             THEN Spread(conv, action.payload.updates)
                             ELSE conv
            IN  [st EXCEPT !.conversations = [k \in 1..Len(@) |-> upd(@[k])]]
      [] action.type = "DELETE_CONVERSATION" ->
            LET keep(conv) == conv.id # action.payload
            IN  [st EXCEPT !.conversations = SelectSeq(@, keep),
                           !.currentConversationId =
                                IF @ = action.payload THEN Null ELSE @]
      [] action.type = "SET_CURRENT_CONVERSATION" ->
            [st EXCEPT !.currentConversationId = action.payload]
      [] action.type = "ADD_MESSAGE" ->
            LET add(conv) == IF conv.id = action.payload.conversationId
                             THEN [conv EXCEPT !.messages = Append(@, action.payload.message)]
                             ELSE conv
            IN  [st EXCEPT !.conversations = [k \in 1..Len(@) |-> add(@[k])]]
      [] action.type = "UPDATE_MESSAGE" ->
            LET updMsg(msg) == IF msg.id = action.payload.messageId
                               THEN Spread(msg, action.payload.updates)
                               ELSE msg
                upd(conv) == IF conv.id = action.payload.conversationId
                             THEN [conv EXCEPT !.messages = [k \in 1..Len(@) |-> updMsg(@[k])]]
                             ELSE conv
            IN  [st EXCEPT !.conversations = [k \in 1..Len(@) |-> upd(@[k])]]
      [] action.type = "SET_LOADING" ->
            [st EXCEPT !.isLoading = action.payload]
      [] action.type = "SET_MODEL" ->
            [st EXCEPT !.selectedModel = action.payload]
      [] action.type = "SET_PROVIDER" ->
            [st EXCEPT !.selectedProvider = action.payload]
      [] action.type = "SET_SYSTEM_PROMPT" ->
            [st EXCEPT !.systemPrompt = action.payload]
      [] OTHER -> st

\* getCurrentConversation: <<>> is null, <<conv>> the conversation found.
getCurrentConversation(st) ==
    IF st.currentConversationId = Null THEN <<>>
    ELSE LET k == {j \in 1..Len(st.conversations) :
                        st.conversations[j].id = st.currentConversationId}
         IN  IF k = {} THEN <<>>
             ELSE <<st.conversations[CHOOSE j \in k : \A l \in k : j <= l]>>

ListedIds(st) == {st.conversations[k].id : k \in 1..Len(st.conversations)}

\* The conversation lists a SET_CONVERSATIONS can carry.
ConversationLists ==
    SeqsUpTo({newConversation(id, t, initialState) : id \in ConversationIds, t \in Titles},
             MaxConvs)

\* The updates of UPDATE_CONVERSATION and UPDATE_MESSAGE: Partial<Conversation>
\* and Partial<Message>.
ConversationUpdates ==
    {[title |-> "Renamed"]} \cup {[id |-> id] : id \in ConversationIds}

MessageUpdates == {[content |-> "edited"]}

ChatUnchanged == UNCHANGED <<ccVars, fnVars, sends, uuid>>

\* dispatch(action) for each action type of the reducer.
SET_CONVERSATIONS ==
    /\ \E l \in ConversationLists :
        state' = chatReducer(state, [type |-> "SET_CONVERSATIONS", payload |-> l])
    /\ ChatUnchanged

ADD_CONVERSATION ==
    /\ Len(state.conversations) < MaxConvs
    /\ \E id \in ConversationIds \ ListedIds(state), t \in Titles :
        state' = chatReducer(state, [type |-> "ADD_CONVERSATION",
                                     payload |-> newConversation(id, t, state)])
    /\ ChatUnchanged

UPDATE_CONVERSATION ==
    /\ \E id \in ConversationIds, u \in ConversationUpdates :
        state' = chatReducer(state, [type |-> "UPDATE_CONVERSATION",
                                     payload |-> [id |-> id, updates |-> u]])
    /\ ChatUnchanged

DELETE_CONVERSATION ==
    /\ \E id \in ConversationIds :
        state' = chatReducer(state, [type |-> "DELETE_CONVERSATION", payload |-> id])
    /\ ChatUnchanged

SET_CURRENT_CONVERSATION ==
    /\ \E id \in ListedIds(state) \cup {Null} :
        state' = chatReducer(state, [type |-> "SET_CURRENT_CONVERSATION", payload |-> id])
    /\ ChatUnchanged

ADD_MESSAGE ==
    /\ \E id \in ConversationIds, m \in MessageIds, c \in ChatContents :
        /\ \A k \in 1..Len(state.conversations) :
            Len(state.conversations[k].messages) < MaxChatMsgs
        /\ state' = chatReducer(state, [type |-> "ADD_MESSAGE",
                        payload |-> [conversationId |-> id,
                                     message |-> newMessage(m, "user", c)]])
    /\ ChatUnchanged

UPDATE_MESSAGE ==
    /\ \E id \in ConversationIds, m \in MessageIds, u \in MessageUpdates :
        state' = chatReducer(state, [type |-> "UPDATE_MESSAGE",
                        payload |-> [conversationId |-> id, messageId |-> m,
                                     updates |-> u]])
    /\ ChatUnchanged

ChatInit ==
    /\ env = [v \in EnvVars |-> EnvSecret(v)]
    /\ pc = [i \in Invocations |-> "idle"]
    /\ request = [i \in Invocations |-> <<>>]
    /\ envReads = [i \in Invocations |-> {}]
    /\ calls = [i \in Invocations |-> <<>>]
    /\ reply = [i \in Invocations |-> <<>>]
    /\ response = [i \in Invocations |-> <<>>]
    /\ fnEnv = [SUPABASE_SERVICE_ROLE_KEY |-> "service-role-key",
                SUPABASE_URL |-> "https://proj.supabase.co"]
    /\ fnPc = "idle"
    /\ fnRequest = <<>>
    /\ fnLocals = EmptyObject
    /\ fnCalls = <<>>
    /\ fnResponse = <<>>
    /\ storage = {}
    /\ file_uploads = {}
    /\ code_executions = {}
    /\ executed = {}
    /\ clock = 0
    /\ state = initialState
    /\ sends = <<>>
    /\ uuid = 0

ReducerNext ==
    \/ SET_CONVERSATIONS
    \/ ADD_CONVERSATION
    \/ UPDATE_CONVERSATION
    \/ DELETE_CONVERSATION
    \/ SET_CURRENT_CONVERSATION
    \/ ADD_MESSAGE
    \/ UPDATE_MESSAGE

\* The reducer under the dispatches of its clients.
SpecReducer == ChatInit /\ [][ReducerNext]_vars

\* content.toLowerCase().includes(word), for the contents above.
includes(content, word) ==
    <<content, word>> \in {<<"write code", "code">>, <<"plot a chart", "chart">>,
                           <<"plot a chart", "plot">>, <<"analyze data", "data">>,
                           <<"analyze data", "analyze">>}

\* simulateAIResponse: the replies a content can get, each named by how it
\* begins; Math.random picks one of the four general replies.
simulateAIResponse(content) ==
    IF includes(content, "code") \/ includes(content, "function")
    THEN {"I'd be happy to help you with coding!"}
    ELSE IF \/ includes(content, "chart") \/ includes(content, "plot")
            \/ includes(content, "visualize")
    THEN {"I can help you create data visualizations!"}
    ELSE IF includes(content, "data") \/ includes(content, "analyze")
    THEN {"I can help you analyze data!"}
    ELSE {"That's a great question!", "I understand!", "Interesting!",
          "Thanks for sharing that with me!"}

\* createConversation(title)
createConversation ==
    /\ Len(state.conversations) < MaxConvs
    /\ \E t \in Titles :
        state' = chatReducer(state, [type |-> "ADD_CONVERSATION",
                        payload |-> newConversation(uuidv4(uuid + 1), t, state)])
    /\ uuid' = uuid + 1
    /\ UNCHANGED <<ccVars, fnVars, sends>>

\* sendMessage(content) up to its await: the user message, SET_LOADING true.
sendMessage(content) ==
    LET currentConv == getCurrentConversation(state)
    IN  /\ Len(sends) < MaxSends
        /\ IF currentConv = <<>> THEN UNCHANGED <<state, sends, uuid>>
           ELSE LET userMessage == newMessage(uuidv4(uuid + 1), "user", content)
                    s1 == chatReducer(state, [type |-> "ADD_MESSAGE",
                                payload |-> [conversationId |-> currentConv[1].id,
                                             message |-> userMessage]])
                IN  /\ state' = chatReducer(s1, [type |-> "SET_LOADING", payload |-> TRUE])
                    /\ sends' = Append(sends, [pc |-> "awaiting",
                                               conversationId |-> currentConv[1].id,
                                               content |-> content,
                                               userMessageId |-> userMessage.id,
                                               assistantMessageId |-> Null])
                    /\ uuid' = uuid + 1
        /\ UNCHANGED <<ccVars, fnVars>>

\* ChatArea's handleSendMessage: nothing is sent while isLoading.
handleSendMessage ==
    /\ ~state.isLoading
    /\ \E content \in ChatContents : sendMessage(content)

\* The await of a sendMessage resolves: the assistant message, and
\* SET_LOADING false in the finally block.
aiResponseArrives ==
    \E k \in 1..Len(sends) :
        /\ sends[k].pc = "awaiting"
        /\ \E aiResponse \in simulateAIResponse(sends[k].content) :
            LET assistantMessage == newMessage(uuidv4(uuid + 1), "assistant", aiResponse)
                s1 == chatReducer(state, [type |-> "ADD_MESSAGE",
                            payload |-> [conversationId |-> sends[k].conversationId,
                                         message |-> assistantMessage]])
            IN  /\ state' = chatReducer(s1, [type |-> "SET_LOADING", payload |-> FALSE])
                /\ sends' = [sends EXCEPT ![k].pc = "done",
                                          ![k].assistantMessageId = assistantMessage.id]
        /\ uuid' = uuid + 1
        /\ UNCHANGED <<ccVars, fnVars>>

SendNext ==
    \/ createConversation
    \/ \E content \in ChatContents : sendMessage(content)
    \/ handleSendMessage
    \/ aiResponseArrives

\* ChatProvider with conversations being created and messages sent.
SpecSend == ChatInit /\ [][SendNext]_vars

(* ------------------------- vocabulary of the claims -------------------- *)

Arrived(i) == Len(request[i]) = 1

Done(i) == pc[i] = "done"

Req(i) == request[i][1]

Body(i) == request[i][1].body.json

Resp(i) == response[i][1]

\* A POST whose body parsed: the requests the routing claims are about.
Routed(i) == Arrived(i) /\ Req(i).method = "POST" /\ Req(i).body.parseable

Missing(o, f) == ~Has(o, f) \/ o[f] = ""

MessagesInvalid(b) ==
    \/ ~Has(b, "messages")
    \/ ~b.messages.isArray
    \/ b.messages.items = <<>>

ValidMessagesAndModel(b) == ~MessagesInvalid(b) /\ ~Missing(b, "model")

Registered(p) == p \in {"openai", "claude", "mistral"}

\* The secret the deployment binds to each provider id.
BoundVar(p) ==
    CASE p = "openai" -> "OPENAI_API_KEY"
      [] p = "claude" -> "ANTHROPIC_API_KEY"
      [] p = "mistral" -> "MISTRAL_API_KEY"

NoCallerCredential(b) == Missing(b, "userApiKey")

\* The response is the error envelope / the result.
IsError(r) == r.hasBody /\ Has(r.body, "error")

ErrorMessage(r) == r.body.error.message

\* The error kinds of the specification, told apart by the message the
\* handler throws.
InvalidRequest(r) ==
    /\ IsError(r)
    /\ ErrorMessage(r) \in {<<"Messages array is required">>,
                            <<"Model and provider are required">>}

UnsupportedProvider(r) ==
    IsError(r) /\ ErrorMessage(r)[1] = "Unsupported provider: "

MissingCredential(r) ==
    IsError(r) /\ ErrorMessage(r)[1] = "API key not found for provider: "

UpstreamError(r) ==
    /\ IsError(r)
    /\ ErrorMessage(r)[1] \in {"OpenAI API error: ", "Claude API error: ",
                                "Mistral API error: "}

Contains(message, text) == \E k \in 1..Len(message) : message[k] = text

NoUpstreamCall(i) == Len(calls[i]) = 0

Called(i) == Len(calls[i]) = 1

Call(i) == calls[i][1]

\* The call carries key in the authentication header of its scheme.
Carries(call, key) ==
    \/ Has(call.headers, "Authorization") /\ call.headers["Authorization"] = "Bearer " \o key
    \/ Has(call.headers, "x-api-key") /\ call.headers["x-api-key"] = key

(* ------------------------------- claims ------------------------------- *)

\* C1: a POST whose messages field is missing, not an array or empty, or
\* whose model or provider is missing, fails with InvalidRequest for every
\* provider, and no upstream call is made.
C1_InvalidRequestNoCall ==
    \A i \in Invocations :
        (Routed(i) /\ (MessagesInvalid(Body(i)) \/ Missing(Body(i), "model")
                        \/ Missing(Body(i), "provider")))
            => Done(i) /\ InvalidRequest(Resp(i)) /\ NoUpstreamCall(i)

C1_Witness ==
    \E i \in Invocations :
        /\ Done(i) /\ Routed(i)
        /\ Has(Body(i), "messages") /\ Body(i).messages.isArray
        /\ Body(i).messages.items = <<>>
        /\ Has(Body(i), "provider") /\ Body(i).provider = "claude"
        /\ Has(Body(i), "model") /\ Body(i).model = "gpt-4"
        /\ InvalidRequest(Resp(i))

\* C2: valid messages and model with an unregistered provider fail with
\* UnsupportedProvider, with or without a caller credential, with no
\* environment credential read and no upstream call.
C2_UnsupportedProvider ==
    \A i \in Invocations :
        (Routed(i) /\ ValidMessagesAndModel(Body(i)) /\ ~Missing(Body(i), "provider")
            /\ ~Registered(Body(i).provider))
            => /\ Done(i) /\ UnsupportedProvider(Resp(i))
               /\ envReads[i] = {}
               /\ NoUpstreamCall(i)

C2_Witness ==
    \E i \in Invocations :
        /\ Done(i) /\ Routed(i) /\ ValidMessagesAndModel(Body(i))
        /\ Has(Body(i), "provider") /\ Body(i).provider = "cohere"
        /\ Has(Body(i), "userApiKey") /\ Body(i).userApiKey = "sk-user"
        /\ env # EmptyObject
        /\ UnsupportedProvider(Resp(i))

\* C3: a valid request for a registered provider with no caller credential,
\* when the environment holds no credential for that provider, fails with
\* MissingCredential and makes no upstream call.
C3_MissingCredential ==
    \A i \in Invocations :
        (Routed(i) /\ ValidMessagesAndModel(Body(i)) /\ ~Missing(Body(i), "provider")
            /\ Registered(Body(i).provider) /\ NoCallerCredential(Body(i))
            /\ ~Has(env, BoundVar(Body(i).provider)))
            => Done(i) /\ MissingCredential(Resp(i)) /\ NoUpstreamCall(i)

C3_Witness ==
    \E i \in Invocations :
        /\ Done(i) /\ Routed(i) /\ ValidMessagesAndModel(Body(i))
        /\ Has(Body(i), "provider") /\ Body(i).provider = "openai"
        /\ ~Has(Body(i), "userApiKey")
        /\ ~Has(env, "OPENAI_API_KEY") /\ Has(env, "MISTRAL_API_KEY")
        /\ MissingCredential(Resp(i))

\* C4: the credential of the upstream call is the caller's when the caller
\* supplied a non-empty one, also when the environment holds one for the
\* provider; otherwise it is the environment credential bound to the
\* requested provider.
C4_CredentialFirstMatch ==
    \A i \in Invocations :
        Called(i) =>
            IF ~NoCallerCredential(Body(i))
            THEN Carries(Call(i), Body(i).userApiKey)
            ELSE /\ Has(env, BoundVar(Body(i).provider))
                 /\ Carries(Call(i), env[BoundVar(Body(i).provider)])

C4_Witness ==
    \E i \in Invocations :
        /\ Called(i)
        /\ Body(i).provider = "claude"
        /\ Has(Body(i), "userApiKey") /\ Body(i).userApiKey = "sk-user"
        /\ Has(env, "ANTHROPIC_API_KEY")
        /\ Carries(Call(i), "sk-user")

\* fetch resolved with a 2xx response whose body parses; Data is that body.
Replied(i) == Done(i) /\ Len(reply[i]) = 1 /\ ~reply[i][1].failed

Is2xx(r) == r.status >= 200 /\ r.status <= 299

Got2xxJson(i) == Replied(i) /\ Is2xx(reply[i][1]) /\ reply[i][1].parseable

Data(i) == reply[i][1].json

\* The upstream body holds the content at the provider's path.
HasContentPath(p, d) ==
    IF p = "claude"
    THEN Has(d, "content") /\ Len(d.content) >= 1 /\ Has(d.content[1], "text")
    ELSE /\ Has(d, "choices") /\ Len(d.choices) >= 1
         /\ Has(d.choices[1], "message")
         /\ Has(d.choices[1].message, "content")

ContentAtPath(p, d) ==
    IF p = "claude" THEN d.content[1].text ELSE d.choices[1].message.content

\* Field f of the result is field f of the upstream body, missing when it
\* is missing there.
PassedThrough(result, d, f) ==
    /\ Has(result, f) <=> Has(d, f)
    /\ Has(d, f) => result[f] = d[f]

\* C5: for a 2xx upstream response the caller gets {content, usage, model}:
\* content is choices[0].message.content (openai, mistral) or content[0].text
\* (claude) of the upstream body, usage and model are the upstream body's,
\* unchanged.
C5_ResultFromUpstream ==
    \A i \in Invocations :
        (Got2xxJson(i) /\ HasContentPath(Body(i).provider, Data(i)))
            => /\ Resp(i).status = 200 /\ Resp(i).hasBody /\ ~IsError(Resp(i))
               /\ Has(Resp(i).body, "content")
               /\ Resp(i).body.content = ContentAtPath(Body(i).provider, Data(i))
               /\ PassedThrough(Resp(i).body, Data(i), "usage")
               /\ PassedThrough(Resp(i).body, Data(i), "model")

C5_Witness ==
    \E i \in Invocations :
        /\ Got2xxJson(i) /\ Body(i).provider = "claude"
        /\ HasContentPath("claude", Data(i)) /\ Data(i).content[1].text = "hi"
        /\ Has(Data(i), "model") /\ Data(i).model # Body(i).model
        /\ Resp(i).status = 200 /\ Resp(i).body.content = "hi"
        /\ Resp(i).body.model = Data(i).model
        /\ Resp(i).body.usage = "usage:3"

\* C6 (as claimed): for every provider and every parseable 2xx upstream
\* body whose content is missing at any level, the result's content is the
\* empty string and the invocation does not fail.
C6_EmptyContentForAnyShape ==
    \A i \in Invocations :
        (Got2xxJson(i) /\ ~HasContentPath(Body(i).provider, Data(i)))
            => /\ Resp(i).status = 200 /\ ~IsError(Resp(i))
               /\ Has(Resp(i).body, "content") /\ Resp(i).body.content = ""

\* The upstream-reported error text of a body, when it carries one.
CarriesErrorText(r) ==
    /\ r.parseable /\ Has(r.json, "error")
    /\ Has(r.json.error, "message") /\ r.json.error.message # ""

\* C7 (as claimed): a non-2xx upstream response fails with UpstreamError,
\* whose message contains the upstream's error.message when the body parses
\* and carries it, and the "Unknown error" marker otherwise, also when the
\* body cannot be parsed.
C7_UpstreamErrorText ==
    \A i \in Invocations :
        (Replied(i) /\ ~Is2xx(reply[i][1]))
            => /\ UpstreamError(Resp(i))
               /\ IF CarriesErrorText(reply[i][1])
                  THEN Contains(ErrorMessage(Resp(i)), reply[i][1].json.error.message)
                  ELSE Contains(ErrorMessage(Resp(i)), "Unknown error")

\* The two shapes of a response to a POST.
Envelope500(r) ==
    /\ r.status = 500 /\ r.hasBody
    /\ DOMAIN r.body = {"error"}
    /\ DOMAIN r.body.error = {"code", "message", "provider"}

Result200(r) ==
    /\ r.status = 200 /\ r.hasBody
    /\ "content" \in DOMAIN r.body
    /\ DOMAIN r.body \subseteq {"content", "usage", "model"}

\* The failures of the specification, stated on the request, the
\* environment and the upstream's reply.
FailureCause(i) ==
    \/ ~Req(i).body.parseable
    \/ MessagesInvalid(Body(i)) \/ Missing(Body(i), "model") \/ Missing(Body(i), "provider")
    \/ ~Registered(Body(i).provider)
    \/ NoCallerCredential(Body(i)) /\ ~Has(env, BoundVar(Body(i).provider))
    \/ Len(reply[i]) = 1 /\ reply[i][1].failed
    \/ Len(reply[i]) = 1 /\ ~Is2xx(reply[i][1])

\* C8: every failure of a POST (unparseable request, InvalidRequest,
\* UnsupportedProvider, MissingCredential, UpstreamError, TransportError) is
\* answered with status 500 and the body {error: {code, message, provider}};
\* every other answer is status 200 with content (and the upstream's usage
\* and model) and no error field.
C8_UniformEnvelope ==
    \A i \in Invocations :
        (Done(i) /\ Req(i).method = "POST")
            => /\ Envelope500(Resp(i)) \/ Result200(Resp(i))
               /\ FailureCause(i) => Envelope500(Resp(i))
               /\ Result200(Resp(i)) => ~Has(Resp(i).body, "error")

C8_Witness ==
    \E i \in Invocations :
        /\ Done(i) /\ Req(i).method = "POST"
        /\ Len(reply[i]) = 1 /\ reply[i][1].failed
        /\ Envelope500(Resp(i))
        /\ Resp(i).body.error.code = "CHAT_COMPLETION_FAILED"

\* C9 (as claimed): when an invocation fails after the request named a
\* provider, the provider field of the error envelope is that provider.
C9_EnvelopeNamesProvider ==
    \A i \in Invocations :
        (Done(i) /\ Routed(i) /\ ~Missing(Body(i), "provider") /\ IsError(Resp(i)))
            => Resp(i).body.error.provider = Body(i).provider

\* C10: for openai and mistral the messages sent upstream are the request's
\* messages: same length, same order, and at every position the same role
\* and the same content.
C10_IdentityMapping ==
    \A i \in Invocations :
        (Called(i) /\ Body(i).provider \in {"openai", "mistral"})
            => LET in == Body(i).messages.items
                   out == Call(i).body.messages
               IN  /\ Len(out) = Len(in)
                   /\ \A k \in 1..Len(in) :
                        /\ DOMAIN out[k] = {"role", "content"}
                        /\ out[k].role = in[k].role
                        /\ out[k].content = in[k].content

C10_Witness ==
    \E i \in Invocations :
        /\ Called(i) /\ Body(i).provider = "mistral"
        /\ Len(Body(i).messages.items) = 2
        /\ Body(i).messages.items[1] = [role |-> "system", content |-> "yo"]
        /\ Body(i).messages.items[2] = [role |-> "user", content |-> "hi"]
        /\ Call(i).body.messages = Body(i).messages.items

\* The documented role renaming undone: human back to user.
Unrenamed(messages) ==
    [k \in 1..Len(messages) |->
        IF messages[k].role = "human" THEN "user" ELSE messages[k].role]

RolesOf(messages) == [k \in 1..Len(messages) |-> messages[k].role]

ContentsOf(messages) == [k \in 1..Len(messages) |-> messages[k].content]

\* C11 (as claimed): for claude the messages sent upstream keep the length,
\* order and content of the request's list; user becomes human, assistant
\* stays assistant and a system message stays a system message at its
\* position.
C11_ClaudeRoleMapping ==
    \A i \in Invocations :
        (Called(i) /\ Body(i).provider = "claude")
            => LET in == Body(i).messages.items
                   out == Call(i).body.messages
               IN  /\ Len(out) = Len(in)
                   /\ ContentsOf(out) = ContentsOf(in)
                   /\ \A k \in 1..Len(in) :
                        out[k].role = CASE in[k].role = "user" -> "human"
                                        [] in[k].role = "assistant" -> "assistant"
                                        [] in[k].role = "system" -> "system"

\* C12 (as claimed): for each provider, undoing the renaming (human back to
\* user) on the transformed list gives the original roles, and the lists
\* transformed for the three providers differ only by that renaming.
C12_RoleRoundTrip ==
    \A i \in Invocations :
        Called(i)
            => LET in == Body(i).messages.items
               IN  /\ Unrenamed(Call(i).body.messages) = RolesOf(in)
                   /\ \A p \in Providers :
                        /\ Unrenamed(formatMessagesForProvider(in, p)) = RolesOf(in)
                        /\ ContentsOf(formatMessagesForProvider(in, p)) = ContentsOf(in)

\* Validation and credential resolution succeed for the request.
Dispatchable(i) ==
    /\ Routed(i)
    /\ ValidMessagesAndModel(Body(i))
    /\ ~Missing(Body(i), "provider")
    /\ Registered(Body(i).provider)
    /\ ~NoCallerCredential(Body(i)) \/ Has(env, BoundVar(Body(i).provider))

UpstreamFailed(i) ==
    Len(reply[i]) = 1 /\ (reply[i][1].failed \/ ~Is2xx(reply[i][1]))

\* C13: an invocation makes at most one upstream call, exactly one when
\* validation and credential resolution succeed; after a network failure or
\* a non-2xx response there is still one call only, and the caller gets the
\* failure.
C13_SingleAttempt ==
    \A i \in Invocations :
        /\ Len(calls[i]) <= 1
        /\ Arrived(i) => (Called(i) <=> Dispatchable(i))
        /\ UpstreamFailed(i)
            => /\ Done(i) /\ Len(calls[i]) = 1
               /\ Resp(i).status = 500 /\ IsError(Resp(i))

C13_Witness ==
    \E i \in Invocations :
        /\ Done(i) /\ Len(calls[i]) = 1
        /\ Len(reply[i]) = 1 /\ reply[i][1].failed
        /\ IsError(Resp(i))

\* The completion endpoint of each provider.
Endpoint(p) ==
    CASE p = "openai" -> "https://api.openai.com/v1/chat/completions"
      [] p = "claude" -> "https://api.anthropic.com/v1/messages"
      [] p = "mistral" -> "https://api.mistral.ai/v1/chat/completions"

ResolvedCredential(i) ==
    IF ~NoCallerCredential(Body(i)) THEN Body(i).userApiKey
    ELSE env[BoundVar(Body(i).provider)]

\* C14: the upstream call is a POST to the requested provider's endpoint
\* with the resolved credential in Authorization: Bearer <key> for openai
\* and mistral, and in x-api-key with a version header and no Authorization
\* header for claude.
C14_EndpointAndAuthScheme ==
    \A i \in Invocations :
        Called(i)
            => LET c == Call(i)
                   p == Body(i).provider
               IN  /\ c.method = "POST"
                   /\ c.url = Endpoint(p)
                   /\ IF p = "claude"
                      THEN /\ Has(c.headers, "x-api-key")
                           /\ c.headers["x-api-key"] = ResolvedCredential(i)
                           /\ Has(c.headers, "anthropic-version")
                           /\ ~Has(c.headers, "Authorization")
                      ELSE /\ Has(c.headers, "Authorization")
                           /\ c.headers["Authorization"] = "Bearer " \o ResolvedCredential(i)

C14_Witness ==
    \E i \in Invocations :
        /\ Called(i) /\ Body(i).provider = "mistral"
        /\ ~Has(Body(i), "userApiKey")
        /\ Call(i).url = "https://api.mistral.ai/v1/chat/completions"
        /\ Call(i).headers["Authorization"] = "Bearer sk-env-mistral"

\* C15: the body of the upstream call holds the transformed messages and
\* the requested model; for claude it also holds max_tokens = 4000, for
\* openai and mistral it holds no max_tokens.
C15_UpstreamBody ==
    \A i \in Invocations :
        Called(i)
            => LET body == Call(i).body
                   p == Body(i).provider
               IN  /\ body.messages = formatMessagesForProvider(Body(i).messages.items, p)
                   /\ body.model = Body(i).model
                   /\ IF p = "claude"
                      THEN Has(body, "max_tokens") /\ body.max_tokens = 4000
                      ELSE ~Has(body, "max_tokens")

C15_Witness ==
    \E i \in Invocations :
        /\ Called(i) /\ Body(i).provider = "claude"
        /\ Body(i).messages.items = <<[role |-> "user", content |-> "hi"],
                                      [role |-> "assistant", content |-> "hi"]>>
        /\ Call(i).body.messages = <<[role |-> "human", content |-> "hi"],
                                     [role |-> "assistant", content |-> "hi"]>>
        /\ Call(i).body.model = "gpt-4"
        /\ Call(i).body.max_tokens = 4000

\* C16: an OPTIONS request is answered with status 200, the CORS headers
\* with the wildcard origin and no body, whatever it contains, without
\* validation, credential lookup or upstream call.
C16_Preflight ==
    \A i \in Invocations :
        (Arrived(i) /\ Req(i).method = "OPTIONS")
            => /\ Done(i)
               /\ Resp(i).status = 200
               /\ ~Resp(i).hasBody
               /\ Resp(i).headers = corsHeaders
               /\ Resp(i).headers["Access-Control-Allow-Origin"] = "*"
               /\ envReads[i] = {}
               /\ NoUpstreamCall(i)

C16_Witness ==
    \E i \in Invocations :
        /\ Done(i) /\ Req(i).method = "OPTIONS"
        /\ ~Req(i).body.parseable
        /\ env # EmptyObject
        /\ Resp(i).status = 200 /\ ~Resp(i).hasBody

\* C17 (as claimed): every dispatched invocation eventually returns a
\* response to its caller, also when the upstream never responds.
C17_EventuallyResponds ==
    \A i \in Invocations : (pc[i] = "fetching") ~> (pc[i] = "done")

\* The invocation was rejected before any upstream call.
RejectedBeforeDispatch(i) ==
    Done(i) /\ Req(i).method = "POST" /\ NoUpstreamCall(i)

\* The upstream call of the invocation completed.
CallCompleted(i) == Done(i) /\ Len(calls[i]) = 1 /\ Len(reply[i]) = 1

\* C20: a POST invocation rejected before dispatch or whose upstream call
\* completed ends with exactly one outcome, a result or an error, never both
\* and no result unless the upstream answered; before that the caller sees
\* no response at all.
C20_ExactlyOneOutcome ==
    \A i \in Invocations :
        /\ ~Done(i) => response[i] = <<>>
        /\ Done(i) => Len(response[i]) = 1
        /\ (RejectedBeforeDispatch(i) \/ CallCompleted(i))
            => LET r == Resp(i)
               IN  /\ \/ Result200(r) /\ ~IsError(r) /\ ~Envelope500(r)
                      \/ Envelope500(r) /\ ~Has(r.body, "content") /\ ~Result200(r)
                   /\ Result200(r) => Got2xxJson(i)
                   /\ RejectedBeforeDispatch(i) => Envelope500(r) /\ reply[i] = <<>>

C20_Witness ==
    \E i \in Invocations :
        /\ CallCompleted(i)
        /\ ~Is2xx(reply[i][1]) /\ ~reply[i][1].failed
        /\ Envelope500(Resp(i)) /\ ~Has(Resp(i).body, "content")

(* ------------- claims on file-upload and code-execution ---------------- *)

FnArrived == Len(fnRequest) = 1

FnDone == fnPc = "done"

FnReq == fnRequest[1]

FnResp == fnResponse[1]

\* The HTTP 500 error envelope of the function the request went to.
FnEnvelope500(r, fn) ==
    /\ r.status = 500 /\ r.hasBody
    /\ DOMAIN r.body = {"error"}
    /\ DOMAIN r.body.error = {"code", "message"}
    /\ r.body.error.code = IF fn = "file-upload" THEN "FILE_UPLOAD_FAILED"
                           ELSE "CODE_EXECUTION_FAILED"

\* The type the uploaded file is stored under, and its decoded size.
StoredType(b) == IF b.fileData.mime # "" THEN b.fileData.mime ELSE Get(b, "fileType")

Acceptable(type, size) == type \in allowedTypes /\ size <= maxSize

\* C18 (as claimed): no object in storage and no row of file_uploads has a
\* MIME type outside the allowed list or a size above 10 MB, and every
\* upload of such a file ends in the FILE_UPLOAD_FAILED response, whatever
\* fileType the request declares or omits.
C18_OnlyAcceptableFilesStored ==
    /\ \A o \in storage : Acceptable(o.contentType, o.size)
    /\ \A r \in file_uploads : Acceptable(Get(r, "file_type"), r.file_size)
    /\ (/\ FnDone /\ FnReq.fn = "file-upload" /\ FnReq.method = "POST"
        /\ FnReq.body.parseable /\ Has(FnReq.body.json, "fileData")
        /\ ~Acceptable(StoredType(FnReq.body.json), FnReq.body.json.fileData.size))
            => FnEnvelope500(FnResp, "file-upload")

\* The request carries an authorization header whose token the auth service
\* accepts.
TokenAccepted(req) ==
    /\ Has(req.headers, "authorization")
    /\ \E t \in ValidTokens : replaceBearer(req.headers.authorization) = <<t>>

Effects == <<storage, file_uploads, code_executions, executed>>

\* C19: a step of code-execution or file-upload changes the tables, the
\* bucket or the set of executed code only while serving a request whose
\* authorization header carries a token the auth service accepts; a POST
\* without the header or with a rejected token issues no call beyond the
\* one to the auth service and ends in the HTTP 500 error envelope.
C19_EffectsOnlyWhenAuthenticated ==
    [][/\ Effects' # Effects => FnArrived /\ TokenAccepted(FnReq)
       /\ (Len(fnRequest') = 1 /\ ~TokenAccepted(fnRequest'[1]))
            => /\ Len(fnCalls') <= 1
               /\ (fnPc' = "done" /\ fnRequest'[1].method = "POST")
                    => FnEnvelope500(fnResponse'[1], fnRequest'[1].fn)]_vars

C19_Witness ==
    /\ FnDone /\ FnReq.fn = "code-execution" /\ FnReq.method = "POST"
    /\ FnReq.headers = [authorization |-> <<"Bearer ", "tok-bad">>]
    /\ Len(fnCalls) = 1
    /\ FnResp.status = 500 /\ FnResp.body.error.message = <<"Invalid token">>
    /\ Effects = <<{}, {}, {}, {}>>

(* --------------------- order, isolation, secrecy ----------------------- *)

\* The phase a statement of the handler belongs to: validation is 1,
\* credential resolution 2, message transformation 3, upstream dispatch 4.
PhaseOf(step) ==
    CASE step \in {"validate", "checkProvider"} -> 1
      [] step = "credential" -> 2
      [] step = "transform" -> 3
      [] step = "dispatch" -> 4

\* The statement decides something not decided before it: a switch on the
\* provider that follows an earlier one only repeats its verdict.
Deciding(t, k) ==
    t[k] # "checkProvider" \/ \A j \in 1..(k - 1) : t[j] # "checkProvider"

\* C21 (as claimed): within an invocation the statements run phase by
\* phase, validation (the provider being a known one included), credential
\* resolution, transformation, dispatch: no statement of an earlier phase
\* runs after one of a later phase, and the upstream call is made only after
\* validation and credential resolution succeeded and only before any
\* response transformation.
C21_PhasesInOrder ==
    \A i \in Invocations :
        Routed(i)
            => LET t == handlerSteps(Body(i), env)
               IN  /\ \A j, k \in 1..Len(t) :
                        (j < k /\ Deciding(t, j) /\ Deciding(t, k))
                            => PhaseOf(t[j]) <= PhaseOf(t[k])
                   /\ Called(i) <=> (Len(t) > 0 /\ t[Len(t)] = "dispatch")
                   /\ Called(i) => Dispatchable(i)
                   /\ Len(reply[i]) = 1 => Called(i)

\* C23: no step changes the process-wide credentials, and nothing resolved
\* for an invocation outlives it: once the response is delivered the
\* invocation holds no credential, and an invocation without a caller
\* credential whose provider has none in the environment makes no call,
\* whatever was served before.
C23_CredentialsReadOnly ==
    [][/\ env' = env
       /\ \A i \in Invocations :
            /\ pc'[i] = "idle" => calls'[i] = <<>> /\ envReads'[i] = {}
            /\ (/\ Routed(i)' /\ Done(i)'
                /\ ~MessagesInvalid(Body(i)') /\ ~Missing(Body(i)', "model")
                /\ ~Missing(Body(i)', "provider") /\ Registered(Body(i)'.provider)
                /\ NoCallerCredential(Body(i)')
                /\ ~Has(env', BoundVar(Body(i)'.provider)))
                    => NoUpstreamCall(i)' /\ MissingCredential(Resp(i)')]_vars

C23_Witness ==
    \E i \in Invocations :
        /\ Done(i) /\ Called(i) /\ Len(reply[i]) = 1
        /\ envReads[i] = {"MISTRAL_API_KEY"}
        /\ env = [v \in EnvVars |-> EnvSecret(v)]
        /\ Carries(Call(i), "sk-env-mistral")

\* The body b with its stream field missing (<<>>) or set (<<v>>).
WithStream(b, s) == [f \in DOMAIN b \ {"stream"} |-> b[f]] @@ Opt("stream", s)

\* What the handler answers to req in environment e when the upstream
\* settles its call with r, and the calls it makes.
Outcome(req, e, r) ==
    LET o == serve(req, e)
    IN  [calls |-> Len(o.calls),
         response |-> IF Len(o.response) = 1 THEN o.response[1]
                      ELSE settle(req, o.calls[1], r)]

\* C24: the upstream body of every provider carries the stream flag of the
\* request, false when omitted, and the flag changes nothing else: the same
\* request with any other stream flag makes as many calls, the same call up
\* to the flag, and gets the same response from the same upstream reply.
C24_StreamForwardedOnly ==
    \A i \in Invocations :
        /\ Called(i) => Call(i).body.stream = (Has(Body(i), "stream") /\ Body(i).stream)
        /\ (Routed(i) /\ Done(i))
            => \A s \in Maybe(BOOLEAN) :
                LET req2 == [Req(i) EXCEPT !.body.json = WithStream(Body(i), s)]
                    o2 == serve(req2, env)
                    r == IF Len(reply[i]) = 1 THEN reply[i][1] ELSE NetworkFailureReply
                IN  /\ Len(o2.calls) = Len(calls[i])
                    /\ Called(i) => [o2.calls[1] EXCEPT !.body.stream = Call(i).body.stream]
                                        = Call(i)
                    /\ Outcome(req2, env, r).response = Resp(i)

C24_Witness ==
    \E i \in Invocations :
        /\ Done(i) /\ Called(i)
        /\ Has(Body(i), "stream") /\ Body(i).stream
        /\ Call(i).body.stream
        /\ Result200(Resp(i))

\* The state of invocation i.
Own(i) == <<pc[i], request[i], envReads[i], calls[i], reply[i], response[i]>>

\* Every invocation that can take a step is free to take it.
CanProceed(j) ==
    /\ pc[j] = "idle" => ENABLED ConcurrentReceive(j)
    /\ pc[j] = "fetching" => ENABLED ConcurrentUpstreamResponds(j) /\ ENABLED NetworkFailure(j)
    /\ pc[j] = "done" => ENABLED Return(j)

\* C22: in every interleaving of concurrent invocations the calls and the
\* response of an invocation are those its own request, the environment and
\* the reply to its own call determine; a step changes the state of one
\* invocation only; and while an invocation awaits its upstream call every
\* other invocation can take its next step.
C22_InvocationsIsolated ==
    /\ [](\A i \in Invocations :
            /\ Done(i)
                => LET o == Outcome(Req(i), env,
                                    IF Len(reply[i]) = 1 THEN reply[i][1]
                                    ELSE NetworkFailureReply)
                   IN  Resp(i) = o.response /\ Len(calls[i]) = o.calls
            /\ pc[i] = "fetching"
                => \A j \in Invocations \ {i} : CanProceed(j))
    /\ [][\E i \in Invocations :
            \A j \in Invocations \ {i} : Own(j)' = Own(j)]_vars

C22_Witness ==
    /\ pc[1] = "fetching" /\ Body(1).provider = "claude"
    /\ Done(2) /\ Called(2) /\ Body(2).provider = "openai"
    /\ NoCallerCredential(Body(2)) /\ ~NoCallerCredential(Body(1))
    /\ Result200(Resp(2))

\* C26: a request that breaks several rules is answered with the error of
\* the first broken rule in the order messages invalid, model or provider
\* missing, provider unsupported, credential missing.
C26_FirstViolatedRule ==
    \A i \in Invocations :
        (Routed(i) /\ Done(i))
            => LET b == Body(i)
                   r == Resp(i)
               IN  IF MessagesInvalid(b)
                   THEN IsError(r) /\ ErrorMessage(r) = <<"Messages array is required">>
                   ELSE IF Missing(b, "model") \/ Missing(b, "provider")
                   THEN IsError(r) /\ ErrorMessage(r) = <<"Model and provider are required">>
                   ELSE IF ~Registered(b.provider)
                   THEN UnsupportedProvider(r) /\ Contains(ErrorMessage(r), b.provider)
                   ELSE IF NoCallerCredential(b) /\ ~Has(env, BoundVar(b.provider))
                   THEN MissingCredential(r)
                   ELSE ~InvalidRequest(r) /\ ~UnsupportedProvider(r) /\ ~MissingCredential(r)

C26_Witness ==
    \E i \in Invocations :
        /\ Routed(i) /\ Done(i)
        /\ ~MessagesInvalid(Body(i)) /\ ~Missing(Body(i), "model")
        /\ Has(Body(i), "provider") /\ Body(i).provider = "cohere"
        /\ NoCallerCredential(Body(i)) /\ env = EmptyObject
        /\ UnsupportedProvider(Resp(i))

\* The secrets an invocation can see: the environment's and the caller's.
Secrets(i) ==
    {env[v] : v \in DOMAIN env}
        \cup (IF NoCallerCredential(Body(i)) THEN {} ELSE {Body(i).userApiKey})

\* The error was produced by the handler, not taken from an upstream reply.
LocallyGenerated(i) ==
    Done(i) /\ IsError(Resp(i)) /\ (reply[i] = <<>> \/ reply[i][1].failed)

\* C27: the upstream call carries exactly the credential resolved for its
\* request and goes to the endpoint of the request's provider, so that the
\* environment credential of one provider is never sent to the endpoint of
\* another; a locally generated error response contains no credential.
C27_CredentialConfinement ==
    \A i \in Invocations :
        /\ Called(i)
            => /\ Carries(Call(i), ResolvedCredential(i))
               /\ Call(i).url = Endpoint(Body(i).provider)
               /\ \A p \in Providers :
                    (Has(env, BoundVar(p)) /\ Carries(Call(i), env[BoundVar(p)]))
                        => Call(i).url = Endpoint(p)
               /\ \A k \in Secrets(i) :
                    Carries(Call(i), k) => k = ResolvedCredential(i)
        /\ (Routed(i) /\ LocallyGenerated(i))
            => \A k \in Secrets(i) :
                /\ ~Contains(ErrorMessage(Resp(i)), k)
                /\ Resp(i).body.error.provider # k
                /\ Resp(i).body.error.code # k

C27_Witness ==
    \E i \in Invocations :
        /\ Called(i) /\ Body(i).provider = "claude"
        /\ NoCallerCredential(Body(i))
        /\ env = [v \in EnvVars |-> EnvSecret(v)]
        /\ Call(i).url = "https://api.anthropic.com/v1/messages"
        /\ Call(i).headers["x-api-key"] = "sk-env-anthropic"
        /\ LocallyGenerated(i)

(* ------------------- records, objects and responses -------------------- *)

\* The handler got past the auth service: userId is bound.
FnAuthenticated == FnArrived /\ Has(fnLocals, "userId")

RowsOf(id) == {r \in code_executions : r.id = id}

\* C25 (as claimed): for an authenticated code-execution request the record
\* exists with status running while the code runs, and once the handler has
\* responded it exists with status completed or failed, failed exactly when
\* the result carries an error, equal to the status in the response; no
\* record of the request is left running.
C25_ExecutionRecordSettled ==
    (FnAuthenticated /\ FnReq.fn = "code-execution")
        => /\ fnPc = "updating"
                => \E r \in RowsOf(fnLocals.executionId) : r.status = "running"
           /\ FnDone
                => /\ FnResp.status = 200
                   /\ \A r \in RowsOf(fnLocals.executionId) : r.status # "running"
                   /\ \E r \in RowsOf(fnLocals.executionId) :
                        /\ r.status = FnResp.body.data.status
                        /\ r.status \in {"completed", "failed"}
                        /\ r.status = "failed" <=> FnResp.body.data.error # Null

ObjectAt(path) == {o \in storage : o.path = path}

RowsAt(path) == {r \in file_uploads : r.storage_path = path}

\* C28 (as claimed): a file_uploads row exists only for a stored object,
\* the success response is returned only when the object and its row both
\* exist, and after an error response no stored object is without a row
\* and no row without a stored object.
C28_RowAndObjectTogether ==
    /\ \A r \in file_uploads : ObjectAt(r.storage_path) # {}
    /\ (FnDone /\ FnReq.fn = "file-upload" /\ FnReq.method = "POST")
        => IF FnResp.status = 200
           THEN /\ ObjectAt(FnResp.body.data.storagePath) # {}
                /\ RowsAt(FnResp.body.data.storagePath) # {}
           ELSE /\ \A o \in storage : RowsAt(o.path) # {}
                /\ \A r \in file_uploads : ObjectAt(r.storage_path) # {}

(* --------------------- claims on the chat context ---------------------- *)

\* The positions in state.conversations of the conversations with this id.
Listed(id) == {k \in 1..Len(state.conversations) : state.conversations[k].id = id}

\* C29: after any sequence of reducer actions from the initial chat state
\* (ADD_CONVERSATION with a fresh id, SET_CURRENT_CONVERSATION with null or
\* a listed id), currentConversationId is null or the id of exactly one
\* conversation of state.conversations.
C29_CurrentIsListed ==
    \/ state.currentConversationId = Null
    \/ Cardinality(Listed(state.currentConversationId)) = 1

\* The messages of the conversation a sendMessage call wrote to.
MessagesOf(call) ==
    IF Listed(call.conversationId) = {} THEN <<>>
    ELSE state.conversations[CHOOSE k \in Listed(call.conversationId) : TRUE].messages

\* Where a message stands in a list of messages.
PositionsOf(msgs, role, id) ==
    {j \in 1..Len(msgs) : msgs[j].id = id /\ msgs[j].role = role}

\* C30: isLoading is true exactly while some sendMessage awaits its reply,
\* and every sendMessage has put its user message into its conversation,
\* followed, once its reply arrived, by exactly one assistant message.
C30_LoadingWhileAwaiting ==
    /\ state.isLoading <=> (\E k \in 1..Len(sends) : sends[k].pc = "awaiting")
    /\ \A k \in 1..Len(sends) :
        LET msgs == MessagesOf(sends[k])
            u == PositionsOf(msgs, "user", sends[k].userMessageId)
            a == PositionsOf(msgs, "assistant", sends[k].assistantMessageId)
        IN  /\ Cardinality(u) = 1
            /\ \A j \in u : msgs[j].content = sends[k].content
            /\ Cardinality(a) = (IF sends[k].pc = "done" THEN 1 ELSE 0)
            /\ \A i \in u, j \in a : i < j

====
